---- MODULE Spec2Model ----
(***************************************************************************)
(* Model of the format-decoding and schema-validation layer of             *)
(* water-level-forecast (src/data_pipelines/external): the pydantic record *)
(* types of schemas.py and the parsers of dwd_parser.py.                   *)
(*                                                                         *)
(* Text is a sequence of one-character strings, so that padding, trimming, *)
(* splitting, substring search and numeral parsing are computed the way    *)
(* the Python code computes them.  A timestamp text is kept structurally   *)
(* (its layout, wall-clock minutes and offset suffix).  A float is kept    *)
(* in thousandths.                                                         *)
(***************************************************************************)
EXTENDS Integers, Sequences, FiniteSets, TLC

VARIABLES
    pc,       \* where the call stands: "import", "start", "constructed",
              \* "responded", "checked", "fetched", "row", "bounded", "parsed",
              \* "done", "again"
    schema,   \* the record type, parser or fetch operation the caller uses
    content,  \* the payload handed to a parser
    raw,      \* what the next stage is handed: the text read from an archive,
              \* the rows given to validate
    rows,     \* the caller's row objects, which validators assign to; during
              \* the import of extract.py, the methods defined so far
    context,  \* the validation context
    localtz,  \* the offset in minutes of the machine's time zone
    result,   \* outcome of the call: status and records
    calls     \* the calls that a fetch operation made to its collaborators

vars == <<pc, schema, content, raw, rows, context, localtz, result, calls>>

----------------------------------------------------------------------------
(* Bounds of the model *)

MaxRows == 2

MaxSteps == 3

MaxLines == 3

MaxLineLen == 4

MaxSepLen == 5

----------------------------------------------------------------------------
(* Python values *)

\* a raw None (never a text: every text element is one character)
PyNone == <<"<None>">>

\* Optional[number] of a validated record
None == [some |-> FALSE, v |-> 0]

Num(n) == [some |-> TRUE, v |-> n]

\* str(v)
PyStr(v) == IF v = PyNone THEN <<"N", "o", "n", "e">> ELSE v

IsSpace(c) == c \in {" ", "\t"}

RECURSIVE LStrip(_)
LStrip(s) == IF s # <<>> /\ IsSpace(Head(s)) THEN LStrip(Tail(s)) ELSE s

RECURSIVE RStrip(_)
RStrip(s) ==
    IF s # <<>> /\ IsSpace(s[Len(s)]) THEN RStrip(SubSeq(s, 1, Len(s) - 1)) ELSE s

\* str.strip()
Strip(s) == RStrip(LStrip(s))

Repeat(c, n) == [i \in 1..n |-> c]

Min(S) == CHOOSE x \in S : \A y \in S : x <= y

\* the first token of str.split() and what follows it
RECURSIVE TokenEnd(_, _)
TokenEnd(s, i) == IF i <= Len(s) /\ ~IsSpace(s[i]) THEN TokenEnd(s, i + 1) ELSE i

\* str.split(): the maximal runs of non-blank characters
RECURSIVE Split(_)
Split(s) ==
    LET t == LStrip(s)
        e == TokenEnd(t, 1)
    IN  IF t = <<>> THEN <<>>
        ELSE <<SubSeq(t, 1, e - 1)>> \o Split(SubSeq(t, e, Len(t)))

\* variant of zfill that pads on the right, as str.ljust(width, "0") does
Zfill_Right(s, width) == IF Len(s) >= width THEN s ELSE s \o Repeat("0", width - Len(s))

\* str.zfill(width): zeros go after a leading sign
Zfill(s, width) ==
    IF Len(s) >= width THEN s
    ELSE IF s # <<>> /\ Head(s) \in {"+", "-"}
         THEN <<Head(s)>> \o Repeat("0", width - Len(s)) \o Tail(s)
         ELSE Repeat("0", width - Len(s)) \o s

Digits == {"0", "1", "2", "3", "4", "5", "6", "7", "8", "9"}

DigitVal(c) ==
    CASE c = "0" -> 0 [] c = "1" -> 1 [] c = "2" -> 2 [] c = "3" -> 3
      [] c = "4" -> 4 [] c = "5" -> 5 [] c = "6" -> 6 [] c = "7" -> 7
      [] c = "8" -> 8 [] c = "9" -> 9

IsDigits(s) == \A i \in 1..Len(s) : s[i] \in Digits

RECURSIVE DigitsVal(_)
DigitsVal(s) ==
    IF s = <<>> THEN 0 ELSE 10 * DigitsVal(SubSeq(s, 1, Len(s) - 1)) + DigitVal(s[Len(s)])

Unsigned(s) == IF s # <<>> /\ Head(s) \in {"+", "-"} THEN Tail(s) ELSE s

Sign(s) == IF s # <<>> /\ Head(s) = "-" THEN -1 ELSE 1

\* int(text): surrounding blanks and leading zeros are accepted
PyInt(v) ==
    LET t == Strip(v)
        u == Unsigned(t)
    IN  IF u # <<>> /\ IsDigits(u)
        THEN [ok |-> TRUE, v |-> Sign(t) * DigitsVal(u)]
        ELSE [ok |-> FALSE, v |-> 0]

DotAt(u) == IF \E i \in 1..Len(u) : u[i] = "."
            THEN CHOOSE i \in 1..Len(u) : u[i] = "." /\ \A j \in 1..(i - 1) : u[j] # "."
            ELSE Len(u) + 1

\* the fraction digits in thousandths
Thousandths(f) == DigitsVal(SubSeq(f \o <<"0", "0", "0">>, 1, 3))

\* float(text), in thousandths: sign, digits, optional point and digits
PyFloat(v) ==
    LET t == Strip(v)
        u == Unsigned(t)
        d == DotAt(u)
        ip == SubSeq(u, 1, d - 1)
        fp == SubSeq(u, d + 1, Len(u))
    IN  IF IsDigits(ip) /\ IsDigits(fp) /\ Len(ip) + Len(fp) > 0
        THEN [ok |-> TRUE, v |-> Sign(t) * (1000 * DigitsVal(ip) + Thousandths(fp))]
        ELSE [ok |-> FALSE, v |-> 0]

----------------------------------------------------------------------------
(* Timestamps *)

\* tzinfo of a datetime: none (naive), or an offset from UTC in minutes
Tz(off) == [aware |-> TRUE, off |-> off]

Naive == [aware |-> FALSE, off |-> 0]

UTC == Tz(0)

\* a timestamp text: its layout ("YYYYMMDDHHMM", "YYYYMMDD", "ISO", "junk"),
\* the wall-clock minutes since the epoch that it spells, the offset suffix
\* of an ISO text, and the minutes since the epoch that an all-digit text
\* gives when its number is read as a unix time (seconds up to 2 * 10^10,
\* milliseconds above)
TsText(fmt, wall, sfx, unix) == [fmt |-> fmt, wall |-> wall, sfx |-> sfx, unix |-> unix]

\* a raw None in place of a timestamp text
TsNone == TsText("None", 0, "", 0)

TsJunk == TsText("junk", 0, "", 0)

\* "202001011000", "202001011200", "20200101"
Ts1000 == TsText("YYYYMMDDHHMM", 26297880, "", 3366683)

Ts1200 == TsText("YYYYMMDDHHMM", 26298000, "", 3366683)

TsDay == TsText("YYYYMMDD", 26297280, "", 336668)

\* "2020-01-01T12:00:00" followed by the suffix
Iso(sfx) == TsText("ISO", 26298000, sfx, 0)

DateTime(wall, tz) == [wall |-> wall, tz |-> tz]

NoDateTime == DateTime(0, Naive)

IsDateTime(v) == "tz" \in DOMAIN v

\* the offset that an ISO suffix spells
SuffixTz(sfx) ==
    CASE sfx \in {"Z", "+00:00"} -> UTC
      [] sfx = "+01:00" -> Tz(60)
      [] sfx = "-01:00" -> Tz(-60)
      [] sfx = "" -> Naive

\* datetime.fromisoformat(v.replace("Z", "+00:00")): a date alone is
\* midnight without offset, "+00:00" gives timezone.utc
FromIsoFormat(v) ==
    IF v.fmt = "ISO" THEN [ok |-> TRUE, v |-> DateTime(v.wall, SuffixTz(v.sfx))]
    ELSE IF v.fmt = "YYYYMMDD" THEN [ok |-> TRUE, v |-> DateTime(v.wall, Naive)]
    ELSE [ok |-> FALSE, v |-> NoDateTime]

\* v.astimezone(timezone.utc): a naive value is taken as local time
AsTimezoneUtc(v, local) ==
    DateTime(v.wall - (IF v.tz.aware THEN v.tz.off ELSE local), UTC)

\* the declared type datetime: an ISO text keeps its offset, an all-digit
\* text is a unix time in UTC, a datetime instance is kept
PydanticDatetime(v) ==
    IF IsDateTime(v) THEN [ok |-> TRUE, v |-> v]
    ELSE IF v.fmt = "ISO" THEN [ok |-> TRUE, v |-> DateTime(v.wall, SuffixTz(v.sfx))]
    ELSE IF v.fmt \in {"YYYYMMDD", "YYYYMMDDHHMM"}
         THEN [ok |-> TRUE, v |-> DateTime(v.unix, UTC)]
    ELSE [ok |-> FALSE, v |-> NoDateTime]

\* datetime.strptime(v, fmt).replace(tzinfo=timezone.utc)
StrptimeUtc(v, fmt) ==
    IF v.fmt = fmt THEN [ok |-> TRUE, v |-> DateTime(v.wall, UTC)]
    ELSE [ok |-> FALSE, v |-> NoDateTime]

----------------------------------------------------------------------------
(* Python dict and validation outcomes *)

Has(d, k) == k \in DOMAIN d

\* d[k] = v
DictSet(d, k, v) == [x \in (DOMAIN d) \cup {k} |-> IF x = k THEN v ELSE d[x]]

\* outcome of one validator: st is "ok", "invalid" (a ValueError or a
\* missing field, which pydantic collects into its ValidationError) or the
\* name of an exception that escapes pydantic
Ok(v) == [st |-> "ok", v |-> v]

Invalid == [st |-> "invalid", v |-> None]

Raise(e) == [st |-> e, v |-> None]

Escapes(st) == st \notin {"ok", "invalid"}

\* fields are validated in declaration order: the first escaping exception
\* ends the row, otherwise the errors are collected
RECURSIVE FirstEscape(_)
FirstEscape(sts) ==
    IF sts = <<>> THEN "none"
    ELSE IF Escapes(Head(sts)) THEN Head(sts) ELSE FirstEscape(Tail(sts))

RowStatus(sts) ==
    IF FirstEscape(sts) # "none" THEN FirstEscape(sts)
    ELSE IF \E i \in 1..Len(sts) : sts[i] = "invalid" THEN "invalid"
    ELSE "ok"

\* outcome of one row: st, the record (when st is "ok") and the caller's
\* dict as the validators left it
RowOutcome(st, out, data) ==
    [st |-> st,
     rec |-> IF st = "ok" THEN [n \in DOMAIN out |-> out[n].v] ELSE <<>>,
     data |-> data]

\* the fields of a row, given in declaration order with their outcomes
Validated(order, out, data) ==
    RowOutcome(RowStatus([i \in 1..Len(order) |-> out[order[i]].st]), out, data)

\* a model_validator(mode="before") that failed ends the row
Rejected(before) == [st |-> before.st, rec |-> <<>>, data |-> before.data]

----------------------------------------------------------------------------
(* DWDPercipitationMeasurements and DWDTemperatureMeasurements *)

SENTINEL == <<"-", "9", "9", "9">>

\* field name, source alias, validator
PrecipFields ==
    << <<"station_id", "STATIONS_ID", "str">>,
       <<"timestamp", "MESS_DATUM", "parse_timestamp">>,
       <<"quality_note", "QN", "int">>,
       <<"precipitation_duration", "RWS_DAU_10", "handle_missing_int">>,
       <<"precipitation_amount", "RWS_10", "handle_missing_float">>,
       <<"precipitation_index", "RWS_IND_10", "handle_missing_int">> >>

TempFields ==
    << <<"station_id", "STATIONS_ID", "str">>,
       <<"timestamp", "MESS_DATUM", "parse_timestamp">>,
       <<"quality_note", "QN", "int">>,
       <<"pressure_hpa", "PP_10", "handle_missing_float_str">>,
       <<"temperature_2m", "TT_10", "handle_missing_float_str">>,
       <<"temperature_5cm", "TM5_10", "handle_missing_float_str">>,
       <<"relative_humidity", "RF_10", "handle_missing_float_str">>,
       <<"dew_point_temperature", "TD_10", "handle_missing_float_str">> >>

\* timestamp: datetime.strptime(v, "%Y%m%d%H%M").replace(tzinfo=utc)
parse_timestamp(v) ==
    IF v = TsNone THEN Raise("TypeError")
    ELSE LET r == StrptimeUtc(v, "YYYYMMDDHHMM")
         IN  IF r.ok THEN Ok(r.v) ELSE Invalid

\* None if v.strip() == "-999" else int(v)
handle_missing_int(v) ==
    IF v = PyNone THEN Raise("AttributeError")
    ELSE IF Strip(v) = SENTINEL THEN Ok(None)
    ELSE IF PyInt(v).ok THEN Ok(Num(PyInt(v).v)) ELSE Invalid

\* None if v.strip() == "-999" else float(v)
handle_missing_float(v) ==
    IF v = PyNone THEN Raise("AttributeError")
    ELSE IF Strip(v) = SENTINEL THEN Ok(None)
    ELSE IF PyFloat(v).ok THEN Ok(Num(PyFloat(v).v)) ELSE Invalid

\* v_stripped = str(v).strip(); None if v_stripped == "-999" else float(v_stripped)
handle_missing_float_str(v) ==
    LET v_stripped == Strip(PyStr(v))
    IN  IF v_stripped = SENTINEL THEN Ok(None)
        ELSE IF PyFloat(v_stripped).ok THEN Ok(Num(PyFloat(v_stripped).v)) ELSE Invalid

\* the declared type int, given the text of a plain numeral
PydanticInt(v) ==
    IF v = PyNone THEN Invalid
    ELSE IF PyInt(v).ok /\ Strip(v) = v THEN Ok(Num(PyInt(v).v)) ELSE Invalid

MeasField(validator, data, alias) ==
    IF ~Has(data, alias) THEN Invalid
    ELSE CASE validator = "str" -> Ok(data[alias])
           [] validator = "parse_timestamp" -> parse_timestamp(data[alias])
           [] validator = "int" -> PydanticInt(data[alias])
           [] validator = "handle_missing_int" -> handle_missing_int(data[alias])
           [] validator = "handle_missing_float" -> handle_missing_float(data[alias])
           [] validator = "handle_missing_float_str" -> handle_missing_float_str(data[alias])

\* variant of the id check that lets every id through
StationIdMismatch_Never(padded, expected) == FALSE

\* the id check of process_station_data: expected and padded != expected
StationIdMismatch(padded, expected) ==
    expected # PyNone /\ expected # <<>> /\ padded # expected

\* model_validator(mode="before") of both measurement types: pads
\* STATIONS_ID in the caller's dict, then checks it against the context
process_station_data(data, ctx) ==
    IF ~Has(data, "STATIONS_ID") THEN [st |-> "KeyError", data |-> data]
    ELSE LET station_id_str == PyStr(data["STATIONS_ID"])
             padded == [data EXCEPT !["STATIONS_ID"] = Zfill(station_id_str, 5)]
             expected == IF Has(ctx, "station_id") THEN ctx["station_id"] ELSE PyNone
         IN  IF StationIdMismatch(padded["STATIONS_ID"], expected)
             THEN [st |-> "invalid", data |-> padded]
             ELSE [st |-> "ok", data |-> padded]

FieldNames(fields) == {fields[i][1] : i \in 1..Len(fields)}

FieldIndex(fields, name) == CHOOSE i \in 1..Len(fields) : fields[i][1] = name

FieldOrder(fields) == [i \in 1..Len(fields) |-> fields[i][1]]

\* the fields of a measurement row after its model validator
MeasFields(fields, before) ==
    IF before.st # "ok" THEN Rejected(before)
    ELSE Validated(FieldOrder(fields),
                   [n \in FieldNames(fields) |->
                       MeasField(fields[FieldIndex(fields, n)][3], before.data,
                                 fields[FieldIndex(fields, n)][2])],
                   before.data)

\* one row through a measurement type: st, the record and the caller's dict
MeasRow(fields, data, ctx) == MeasFields(fields, process_station_data(data, ctx))


----------------------------------------------------------------------------
(* PegelonlineMeasurements and PegelonlineForecasts *)

HexLower == {"0", "1", "2", "3", "4", "5", "6", "7", "8", "9", "a", "b", "c", "d", "e", "f"}

Lower(c) ==
    CASE c = "A" -> "a" [] c = "B" -> "b" [] c = "C" -> "c"
      [] c = "D" -> "d" [] c = "E" -> "e" [] c = "F" -> "f" [] OTHER -> c

\* 8-4-4-4-12
HyphenAt == {9, 14, 19, 24}

Hyphenated(h) ==
    SubSeq(h, 1, 8) \o <<"-">> \o SubSeq(h, 9, 12) \o <<"-">> \o SubSeq(h, 13, 16)
        \o <<"-">> \o SubSeq(h, 17, 20) \o <<"-">> \o SubSeq(h, 21, 32)

Unhyphenated(t) ==
    SubSeq(t, 1, 8) \o SubSeq(t, 10, 13) \o SubSeq(t, 15, 18) \o SubSeq(t, 20, 23)
        \o SubSeq(t, 25, 36)

\* the declared type UUID: 32 hex digits, hyphenated or not, in any case;
\* the value is the lower-case digits
PydanticUuid(v) ==
    IF v = PyNone THEN Invalid
    ELSE LET h == IF Len(v) = 36 /\ \A i \in HyphenAt : v[i] = "-"
                  THEN Unhyphenated(v) ELSE v
         IN  IF Len(h) = 32 /\ \A i \in 1..32 : Lower(h[i]) \in HexLower
             THEN Ok([i \in 1..32 |-> Lower(h[i])])
             ELSE Invalid

\* variant of convert_to_utc that returns the value with the offset it came with
convert_to_utc_Kept(v, local) == v

\* field_validator(mode="after") of a timestamp: v.astimezone(timezone.utc)
convert_to_utc(v, local) == AsTimezoneUtc(v, local)

PegelTimestamp(data, key, local) ==
    IF ~Has(data, key) \/ ~PydanticDatetime(data[key]).ok THEN Invalid
    ELSE Ok(convert_to_utc(PydanticDatetime(data[key]).v, local))

\* the declared type int given a JSON number (in thousandths)
PydanticIntOfNumber(n) == IF n % 1000 = 0 THEN Ok(Num(n \div 1000)) ELSE Invalid

\* the declared type str
PydanticStr(data, key) ==
    IF ~Has(data, key) \/ data[key] = PyNone THEN Invalid ELSE Ok(data[key])

\* model_validator(mode="before") of both Pegelonline types
inject_uuid(data, ctx) ==
    LET uuid == IF Has(ctx, "uuid") THEN ctx["uuid"] ELSE PyNone
    IN  IF uuid # PyNone THEN DictSet(data, "uuid", uuid) ELSE data

\* the fields of PegelonlineMeasurements after inject_uuid
PegelMeasFields(injected, local) ==
    Validated(<<"uuid", "timestamp", "value", "stateMnwMhw", "stateNswHsw">>,
              [uuid |-> IF Has(injected, "uuid") THEN PydanticUuid(injected["uuid"])
                        ELSE Invalid,
               timestamp |-> PegelTimestamp(injected, "timestamp", local),
               value |-> IF Has(injected, "value")
                         THEN PydanticIntOfNumber(injected["value"]) ELSE Invalid,
               stateMnwMhw |-> PydanticStr(injected, "stateMnwMhw"),
               stateNswHsw |-> PydanticStr(injected, "stateNswHsw")],
              injected)

PegelMeasRow(data, ctx, local) == PegelMeasFields(inject_uuid(data, ctx), local)

\* Literal["forecast", "estimate"]
ForecastTypes == {<<"forecast">>, <<"estimate">>}

\* the fields of PegelonlineForecasts after inject_uuid
PegelForecastFields(injected, local) ==
    Validated(<<"uuid", "initialized", "timestamp", "value", "type">>,
              [uuid |-> IF Has(injected, "uuid") THEN PydanticUuid(injected["uuid"])
                        ELSE Invalid,
               initialized |-> PegelTimestamp(injected, "initialized", local),
               timestamp |-> PegelTimestamp(injected, "timestamp", local),
               value |-> IF Has(injected, "value")
                         THEN PydanticIntOfNumber(injected["value"]) ELSE Invalid,
               type |-> IF Has(injected, "type") /\ injected["type"] \in ForecastTypes
                        THEN Ok(injected["type"]) ELSE Invalid],
              injected)

PegelForecastRow(data, ctx, local) == PegelForecastFields(inject_uuid(data, ctx), local)


----------------------------------------------------------------------------
(* DWDMosmixLForecasts *)

DASH == <<"-">>

\* data[key] = datetime.fromisoformat(data[key].replace("Z", "+00:00"))
IsoAssign(data, key) ==
    IF ~Has(data, key) THEN [st |-> "KeyError", data |-> data]
    ELSE IF IsDateTime(data[key]) THEN [st |-> "TypeError", data |-> data]
    ELSE IF data[key] = TsNone THEN [st |-> "AttributeError", data |-> data]
    ELSE IF ~FromIsoFormat(data[key]).ok THEN [st |-> "invalid", data |-> data]
    ELSE [st |-> "ok", data |-> [data EXCEPT ![key] = FromIsoFormat(data[key]).v]]

\* variant of the dash conversion that turns "-" into the text "0.0"
DashToNone_Zero(value) == IF value = DASH THEN <<"0", ".", "0">> ELSE value

\* None if value == "-" else value
DashToNone(value) == IF value = DASH THEN PyNone ELSE value

\* for param in ["RR1c", "RR3c", "TTT"]: value = data[param];
\* data[param] = None if value == "-" else value
RECURSIVE DashAssign(_, _)
DashAssign(data, params) ==
    IF params = <<>> THEN [st |-> "ok", data |-> data]
    ELSE IF ~Has(data, Head(params)) THEN [st |-> "KeyError", data |-> data]
    ELSE DashAssign([data EXCEPT ![Head(params)] = DashToNone(@)], Tail(params))

ForecastParams == <<"RR1c", "RR3c", "TTT">>

\* model_validator(mode="before")
convert_values_and_timestamps(data, ctx) ==
    LET a == IsoAssign(data, "issue_time")
        b == IsoAssign(a.data, "timestamp")
        c == DashAssign(b.data, ForecastParams)
    IN  IF a.st # "ok" THEN a
        ELSE IF b.st # "ok" THEN b
        ELSE IF c.st # "ok" THEN c
        ELSE [st |-> "ok",
              data |-> IF ctx # <<>> /\ Has(ctx, "station_id")
                       THEN DictSet(c.data, "station_id", ctx["station_id"])
                       ELSE c.data]

\* variant of verify_utc that lets every offset through
verify_utc_Any(v) == Ok(v)

\* field_validator(mode="after") of the MOSMIX and station-catalog dates
verify_utc(v) == IF v.tz # UTC THEN Invalid ELSE Ok(v)

\* the declared type Optional[float] given None or a text
PydanticOptFloat(v) ==
    IF v = PyNone THEN Ok(None)
    ELSE IF PyFloat(v).ok /\ Strip(v) = v THEN Ok(Num(PyFloat(v).v)) ELSE Invalid

\* the fields of DWDMosmixLForecasts after its model validator
MosmixFields(before) ==
    IF before.st # "ok" THEN Rejected(before)
    ELSE Validated(<<"station_id", "issue_time", "timestamp", "RR1c", "RR3c", "TTT">>,
                   [station_id |-> PydanticStr(before.data, "station_id"),
                    issue_time |-> verify_utc(before.data["issue_time"]),
                    timestamp |-> verify_utc(before.data["timestamp"]),
                    RR1c |-> PydanticOptFloat(before.data["RR1c"]),
                    RR3c |-> PydanticOptFloat(before.data["RR3c"]),
                    TTT |-> PydanticOptFloat(before.data["TTT"])],
                   before.data)

MosmixRow(data, ctx) == MosmixFields(convert_values_and_timestamps(data, ctx))

----------------------------------------------------------------------------
(* DWDPercipitationStations, DWDTemperatureStations, DWDMosmixLStations *)

\* variant of the id format that takes up to five digits
StationIdFormat_UpTo5(v) == Len(v) \in 1..5 /\ IsDigits(v)

\* Field(min_length=5, max_length=5, pattern=r"^\d{5}$")
StationIdFormat(v) == Len(v) = 5 /\ IsDigits(v)

PydanticStationId(data, key) ==
    IF ~Has(data, key) \/ data[key] = PyNone THEN Invalid
    ELSE IF StationIdFormat(data[key]) THEN Ok(data[key]) ELSE Invalid

\* DWDPercipitationStations: value = data["Abgabe"]
clean_empty_strings(data) ==
    IF ~Has(data, "Abgabe") THEN [st |-> "KeyError", data |-> data]
    ELSE [st |-> "ok", data |-> [data EXCEPT !["Abgabe"] = IF @ = DASH THEN PyNone ELSE @]]

\* DWDTemperatureStations: value = data.get("Abgabe", "")
clean_empty_strings_get(data) ==
    LET value == IF Has(data, "Abgabe") THEN data["Abgabe"] ELSE <<>>
    IN  [st |-> "ok", data |-> DictSet(data, "Abgabe", IF value = DASH THEN PyNone ELSE value)]

\* DWDPercipitationStations declares its dates as plain datetime
PlainStationDate(data, key) ==
    IF ~Has(data, key) \/ data[key] = TsNone \/ ~PydanticDatetime(data[key]).ok
    THEN Invalid
    ELSE verify_utc(PydanticDatetime(data[key]).v)

\* DWDTemperatureStations: field_validator(mode="before") of the dates
parse_station_date(v) ==
    IF IsDateTime(v) THEN Ok(IF v.tz.aware THEN v ELSE DateTime(v.wall, UTC))
    ELSE LET r == StrptimeUtc(v, "YYYYMMDD")
         IN  IF r.ok THEN Ok(r.v) ELSE Invalid

ParsedStationDate(data, key) ==
    IF ~Has(data, key) \/ parse_station_date(data[key]).st # "ok" THEN Invalid
    ELSE verify_utc(parse_station_date(data[key]).v)

\* the declared types int and float given a text
PydanticIntField(data, key) == IF Has(data, key) THEN PydanticInt(data[key]) ELSE Invalid

PydanticFloatField(data, key) ==
    IF ~Has(data, key) \/ data[key] = PyNone THEN Invalid
    ELSE PydanticOptFloat(data[key])

\* Optional[str]
PydanticOptStr(data, key) == IF Has(data, key) THEN Ok(data[key]) ELSE Invalid

\* a date of a station catalog: a plain datetime for precipitation, the
\* field validator parse_station_date for temperature
StationDate(cls, data, key) ==
    IF cls = "DWDPercipitationStations" THEN PlainStationDate(data, key)
    ELSE ParsedStationDate(data, key)

\* the fields of a station-catalog row after its model validator
ClimateStationFields(cls, before) ==
    IF before.st # "ok" THEN Rejected(before)
    ELSE Validated(<<"station_id", "start_date", "end_date", "station_elevation",
                     "latitude", "longitude", "station_name", "bundesland",
                     "release_status">>,
                   [station_id |-> PydanticStationId(before.data, "Stations_id"),
                    start_date |-> StationDate(cls, before.data, "von_datum"),
                    end_date |-> StationDate(cls, before.data, "bis_datum"),
                    station_elevation |-> PydanticIntField(before.data, "Stationshoehe"),
                    latitude |-> PydanticFloatField(before.data, "geoBreite"),
                    longitude |-> PydanticFloatField(before.data, "geoLaenge"),
                    station_name |-> PydanticStr(before.data, "Stationsname"),
                    bundesland |-> PydanticStr(before.data, "Bundesland"),
                    release_status |-> PydanticOptStr(before.data, "Abgabe")],
                   before.data)

ClimateStationRow(cls, data) ==
    ClimateStationFields(cls, IF cls = "DWDPercipitationStations"
                              THEN clean_empty_strings(data)
                              ELSE clean_empty_strings_get(data))

\* Field(alias="ID", pattern=r".*\d.*")
MosmixIdFormat(v) == \E i \in 1..Len(v) : v[i] \in Digits

DASHES == <<"-", "-", "-", "-">>

\* field_validator("icao", mode="before"): None if v == "----" else v
dash_means_none(v) == IF v = DASHES THEN PyNone ELSE v

MosmixStationRow(data) ==
    Validated(<<"id", "icao", "name", "latitude", "longitude", "elevation">>,
              [id |-> IF Has(data, "ID") /\ data["ID"] # PyNone /\ MosmixIdFormat(data["ID"])
                      THEN Ok(data["ID"]) ELSE Invalid,
               icao |-> IF Has(data, "ICAO") THEN Ok(dash_means_none(data["ICAO"]))
                        ELSE Invalid,
               name |-> PydanticStr(data, "NAME"),
               latitude |-> PydanticFloatField(data, "LAT"),
               longitude |-> PydanticFloatField(data, "LON"),
               elevation |-> PydanticIntField(data, "ELEV")],
              data)


----------------------------------------------------------------------------
(* DWDMosmixLSingleStationKMZParser *)

\* The KML document of a payload: IssueTime is <<>> (no element), or one
\* text; TimeSteps is <<>> (no ForecastTimeSteps element) or its TimeStep
\* texts; Placemark tells whether the element exists; Forecasts are the
\* dwd:Forecast elements of the placemark in document order, each with its
\* elementName and value, where value is <<>> (no value element) or one text.

NoText == <<>>

\* _parse_issue_time
parse_issue_time(kml) ==
    IF kml.IssueTime # <<>> /\ kml.IssueTime[1] # TsNone
    THEN [ok |-> TRUE, v |-> kml.IssueTime[1]]
    ELSE [ok |-> FALSE, v |-> TsNone]

\* _parse_forecast_timestamps
parse_forecast_timestamps(kml) ==
    IF \E i \in 1..Len(kml.TimeSteps) : kml.TimeSteps[i] = TsNone
    THEN [ok |-> FALSE, v |-> <<>>]
    ELSE [ok |-> TRUE, v |-> kml.TimeSteps]

AllowListed == {"RR1c", "RR3c", "TTT"}

\* a variant that keeps the Forecast elements of every parameter
Relevant_All(fs) == fs

\* the allow-listed Forecast elements, in document order
RECURSIVE Relevant(_)
Relevant(fs) ==
    IF fs = <<>> THEN <<>>
    ELSE IF Head(fs).elementName \in AllowListed THEN <<Head(fs)>> \o Relevant(Tail(fs))
    ELSE Relevant(Tail(fs))

\* _parse_forecasts: forecasts[param_name] = value_elem.text.split(), a
\* later element of the same name replacing an earlier one
parse_forecasts(kml) ==
    LET fs == Relevant(kml.Forecasts)
        names == {fs[i].elementName : i \in 1..Len(fs)}
        last(n) == CHOOSE i \in 1..Len(fs) :
                      fs[i].elementName = n /\ \A j \in (i + 1)..Len(fs) : fs[j].elementName # n
    IN  IF ~kml.Placemark THEN [ok |-> FALSE, v |-> <<>>]
        ELSE IF \E i \in 1..Len(fs) : fs[i].value = NoText THEN [ok |-> FALSE, v |-> <<>>]
        ELSE IF fs = <<>> THEN [ok |-> FALSE, v |-> <<>>]
        ELSE [ok |-> TRUE, v |-> [n \in names |-> Split(fs[last(n)].value[1])]]

\* forecasts.get(param, ["-"] * len(forecast_timestamps))
ValuesOrDashes(forecasts, param, n) ==
    IF Has(forecasts, param) THEN forecasts[param] ELSE Repeat(DASH, n)

\* _create_json_structure: zip() stops at the shortest of its arguments
create_json_structure(issue_time, forecast_timestamps, forecasts) ==
    LET n == Len(forecast_timestamps)
        rr1c_values == ValuesOrDashes(forecasts, "RR1c", n)
        rr3c_values == ValuesOrDashes(forecasts, "RR3c", n)
        ttt_values == ValuesOrDashes(forecasts, "TTT", n)
        zipped == Min({n, Len(rr1c_values), Len(rr3c_values), Len(ttt_values)})
    IN  [i \in 1..zipped |->
            [issue_time |-> issue_time, timestamp |-> forecast_timestamps[i],
             RR1c |-> rr1c_values[i], RR3c |-> rr3c_values[i], TTT |-> ttt_values[i]]]

\* parse, after the KML is read from the archive
KMZParse(kml) ==
    LET issue_time == parse_issue_time(kml)
        forecast_timestamps == parse_forecast_timestamps(kml)
        forecasts == parse_forecasts(kml)
    IN  IF ~issue_time.ok \/ ~forecast_timestamps.ok \/ ~forecasts.ok
        THEN [status |-> "ValueError", rows |-> <<>>]
        ELSE [status |-> "ok",
              rows |-> create_json_structure(issue_time.v, forecast_timestamps.v, forecasts.v)]


----------------------------------------------------------------------------
(* PegelonlineStations *)

\* needle in hay, for two texts: hay contains needle as a substring
Substring(needle, hay) ==
    \E k \in 0..(Len(hay) - Len(needle)) :
        \A j \in 1..Len(needle) : hay[k + j] = needle[j]

\* ctx["waters"] is a text (as in the request params) or a list of texts
WatersText(t) == [kind |-> "str", v |-> t]

WatersList(l) == [kind |-> "list", v |-> l]

\* value not in allowed: a substring test when allowed is a text, where a
\* None on the left is a TypeError
NotIn(value, allowed) ==
    IF allowed.kind = "str"
    THEN IF value = PyNone THEN "TypeError"
         ELSE IF Substring(value, allowed.v) THEN "in" ELSE "not in"
    ELSE IF \E i \in 1..Len(allowed.v) : allowed.v[i] = value THEN "in" ELSE "not in"

\* field_validator("water", mode="after")
ensure_correct_water(value, ctx) ==
    IF Has(ctx, "waters")
    THEN LET allowed == ctx["waters"]
             longname == IF Has(value, "longname") THEN value["longname"] ELSE PyNone
         IN  CASE NotIn(longname, allowed) = "TypeError" -> Raise("TypeError")
               [] NotIn(longname, allowed) = "not in" -> Invalid
               [] OTHER -> Ok(value)
    ELSE Ok(value)

\* model_validator(mode="before")
ensure_location_keys(data) ==
    LET a == IF Has(data, "longitude") THEN data ELSE DictSet(data, "longitude", None)
    IN  IF Has(a, "latitude") THEN a ELSE DictSet(a, "latitude", None)

\* Optional[float] given None or a JSON number
PydanticOptNumber(v) == Ok(v)

\* the fields of PegelonlineStations after ensure_location_keys
PegelStationFields(d, ctx) ==
    Validated(<<"uuid", "number", "shortname", "longname", "km", "agency",
                "longitude", "latitude", "water">>,
              [uuid |-> IF Has(d, "uuid") THEN PydanticUuid(d["uuid"]) ELSE Invalid,
               number |-> PydanticIntField(d, "number"),
               shortname |-> PydanticStr(d, "shortname"),
               longname |-> PydanticStr(d, "longname"),
               km |-> IF Has(d, "km") THEN Ok(Num(d["km"])) ELSE Invalid,
               agency |-> PydanticStr(d, "agency"),
               longitude |-> PydanticOptNumber(d["longitude"]),
               latitude |-> PydanticOptNumber(d["latitude"]),
               water |-> IF Has(d, "water") THEN ensure_correct_water(d["water"], ctx)
                         ELSE Invalid],
              d)

PegelStationRow(data, ctx) == PegelStationFields(ensure_location_keys(data), ctx)


----------------------------------------------------------------------------
(* DWDMosmixLStationsParser *)

\* A text is the sequence of the pieces that its "\n" characters separate:
\* "h\ns\n" is <<h, s, <<>>>>.

\* text.splitlines(): a final line break opens no further line
SplitLines(text) ==
    IF text # <<>> /\ text[Len(text)] = <<>> THEN SubSeq(text, 1, Len(text) - 1) ELSE text

\* s[start:end] with 0 <= start: a slice never reaches outside of s
Slice(s, start, end) == SubSeq(s, start + 1, Min({end, Len(s)}))

\* the loop of _get_column_boundaries from character i on, where start is
\* <<>> (None) or the offset of the first dash of the run
RECURSIVE BoundariesFrom(_, _, _, _)
BoundariesFrom(separator_line, i, start, boundaries) ==
    IF i >= Len(separator_line)
    THEN IF start # <<>> THEN Append(boundaries, <<start[1], Len(separator_line)>>)
         ELSE boundaries
    ELSE LET char == separator_line[i + 1]
         IN  IF char = "-" /\ start = <<>>
             THEN BoundariesFrom(separator_line, i + 1, <<i>>, boundaries)
             ELSE IF char = " " /\ start # <<>>
                  THEN BoundariesFrom(separator_line, i + 1, <<>>,
                                      Append(boundaries, <<start[1], i>>))
                  ELSE BoundariesFrom(separator_line, i + 1, start, boundaries)

\* variant whose end offsets are those of the last dash of a run
get_column_boundaries_LastDash(separator_line) ==
    [j \in 1..Len(BoundariesFrom(separator_line, 0, <<>>, <<>>)) |->
        <<BoundariesFrom(separator_line, 0, <<>>, <<>>)[j][1],
          BoundariesFrom(separator_line, 0, <<>>, <<>>)[j][2] - 1>>]

get_column_boundaries(separator_line) == BoundariesFrom(separator_line, 0, <<>>, <<>>)

\* variant of _parse_line that leaves the remainder of a short line untrimmed
Cell_Untrimmed(line, start, end) ==
    IF Len(line) >= end THEN Strip(Slice(line, start, end))
    ELSE IF Len(line) > start THEN Slice(line, start, Len(line))
    ELSE <<>>

\* the three branches of _parse_line for one column
Cell(line, start, end) ==
    IF Len(line) >= end THEN Strip(Slice(line, start, end))
    ELSE IF Len(line) > start THEN Strip(Slice(line, start, Len(line)))
    ELSE <<>>

parse_line(line, boundaries) ==
    [j \in 1..Len(boundaries) |-> Cell(line, boundaries[j][1], boundaries[j][2])]

\* a dict is kept as the sequence of its <<key, value>> pairs in insertion
\* order; d[k] = v replaces the value of a key it has
KeyAt(d, k) == {i \in 1..Len(d) : d[i][1] = k}

Put(d, k, v) ==
    IF KeyAt(d, k) = {} THEN Append(d, <<k, v>>)
    ELSE [i \in 1..Len(d) |-> IF d[i][1] = k THEN <<k, v>> ELSE d[i]]

\* list(d.keys()): the keys in the order of the dict
Keys(row) == [k \in 1..Len(row) |-> row[k][1]]

\* variant that keeps the first value of a header token that occurs twice
RECURSIVE RowDict_FirstValue(_, _, _, _)
RowDict_FirstValue(headers, values, i, row_dict) ==
    IF i >= Len(headers) THEN row_dict
    ELSE RowDict_FirstValue(headers, values, i + 1,
                 IF i < Len(values) /\ KeyAt(row_dict, headers[i + 1]) = {}
                 THEN Append(row_dict, <<headers[i + 1], values[i + 1]>>)
                 ELSE row_dict)

\* for i, header in enumerate(headers): if i < len(values): row_dict[header] = values[i]
RECURSIVE RowDict(_, _, _, _)
RowDict(headers, values, i, row_dict) ==
    IF i >= Len(headers) THEN row_dict
    ELSE RowDict(headers, values, i + 1,
                 IF i < Len(values) THEN Put(row_dict, headers[i + 1], values[i + 1])
                 ELSE row_dict)

\* for line in lines[2:]: if line.strip(): ...
RECURSIVE DataRows(_, _, _)
DataRows(lines, headers, boundaries) ==
    IF lines = <<>> THEN <<>>
    ELSE IF Strip(Head(lines)) # <<>>
         THEN <<RowDict(headers, parse_line(Head(lines), boundaries), 0, <<>>)>>
                  \o DataRows(Tail(lines), headers, boundaries)
         ELSE DataRows(Tail(lines), headers, boundaries)

\* variant of parse whose loop starts at lines[1:], the separator line
StationsParse_FromSeparator(text) ==
    LET lines == SplitLines(text)
    IN  IF Len(lines) < 3 THEN <<>>
        ELSE DataRows(SubSeq(lines, 2, Len(lines)), Split(lines[1]),
                      get_column_boundaries(lines[2]))

\* DWDMosmixLStationsParser.parse
StationsParse(text) ==
    LET lines == SplitLines(text)
    IN  IF Len(lines) < 3 THEN <<>>
        ELSE DataRows(SubSeq(lines, 3, Len(lines)), Split(lines[1]),
                      get_column_boundaries(lines[2]))

----------------------------------------------------------------------------
(* The type adapters *)

\* variant of the status that reports success whatever the rows gave
ListStatus_AlwaysOk(outs, esc) == "ok"

\* rows are validated in order and their errors collected into one
\* ValidationError; an exception of another type ends the call at its row
ListStatus(outs, esc) ==
    IF esc # {} THEN outs[Min(esc)].st
    ELSE IF \E i \in 1..Len(outs) : outs[i].st = "invalid" THEN "ValidationError"
    ELSE "ok"

ListOutcome(status, rws, outs, esc) ==
    [status |-> status,
     records |-> IF status = "ok" THEN [i \in 1..Len(rws) |-> outs[i].rec] ELSE <<>>,
     rows |-> [i \in 1..Len(rws) |->
                 IF esc = {} \/ i <= Min(esc) THEN outs[i].data ELSE rws[i]]]

ListOf(rws, outs, esc) == ListOutcome(ListStatus(outs, esc), rws, outs, esc)

\* TypeAdapter(list[cls]).validate_python(raw, context=...), given the
\* outcome of every row
ValidateList(rws, outs) == ListOf(rws, outs, {i \in 1..Len(rws) : Escapes(outs[i].st)})

\* TypeAdapter(cls).validate_python(raw, context=...): one row, one record
ValidateOne(out) ==
    [status |-> IF out.st = "invalid" THEN "ValidationError" ELSE out.st,
     records |-> IF out.st = "ok" THEN <<out.rec>> ELSE <<>>,
     rows |-> <<out.data>>]

NoResult == [status |-> "none", records |-> <<>>]

----------------------------------------------------------------------------
(* Inputs of the validation calls *)

\* every row of the input differs from a well-formed row in one key
Vary(base, key, values) == {[base EXCEPT ![key] = v] : v \in values}

Without(d, key) == [k \in (DOMAIN d) \ {key} |-> d[k]]

StationIdTexts ==
    { <<"4", "4">>, <<"0", "0", "0", "4", "4">>, <<"4", "5">>,
      <<"1", "2", "3", "4", "5", "6">> }

ExpectedIds ==
    { <<"0", "0", "0", "4", "4">>, <<"0", "0", "0", "4", "5">>, <<"4", "4">>, <<>> }

SentinelTexts ==
    { SENTINEL, <<"-", "9", "9", "9", " ">>, <<"-", "0", "9", "9", "9">>,
      <<"-", "9", "9", "9", ".", "0">>, <<"x">>, PyNone }

SentinelSpellings ==
    { SENTINEL, <<"-", "0", "9", "9", "9">>, <<"-", "9", "9", "9", ".", "0">> }

MessDatumTexts == {TsDay, TsNone}

PrecipBase ==
    [STATIONS_ID |-> <<"4", "4">>, MESS_DATUM |-> Ts1000,
     QN |-> <<"3">>, RWS_DAU_10 |-> <<"1", "0">>, RWS_10 |-> <<"0", ".", "5">>,
     RWS_IND_10 |-> <<"1">>]

PrecipRows ==
    {PrecipBase, Without(PrecipBase, "STATIONS_ID"), Without(PrecipBase, "RWS_10")}
    \cup Vary(PrecipBase, "STATIONS_ID", StationIdTexts)
    \cup Vary(PrecipBase, "MESS_DATUM", MessDatumTexts)
    \cup Vary(PrecipBase, "QN", {<<"x">>})
    \cup Vary(PrecipBase, "RWS_DAU_10", SentinelSpellings)
    \cup Vary(PrecipBase, "RWS_10", SentinelTexts)
    \cup Vary(PrecipBase, "RWS_IND_10", {SENTINEL})

TempBase ==
    [STATIONS_ID |-> <<"4", "4">>, MESS_DATUM |-> Ts1000,
     QN |-> <<"3">>, PP_10 |-> <<"9", "9", "0", ".", "1">>, TT_10 |-> <<"1", ".", "5">>,
     TM5_10 |-> <<"1", ".", "2">>, RF_10 |-> <<"8", "0">>, TD_10 |-> <<"-", "1", ".", "0">>]

TempRows ==
    {TempBase, Without(TempBase, "STATIONS_ID"), Without(TempBase, "TT_10")}
    \cup Vary(TempBase, "STATIONS_ID", StationIdTexts)
    \cup Vary(TempBase, "MESS_DATUM", MessDatumTexts)
    \cup Vary(TempBase, "PP_10", SentinelTexts)
    \cup Vary(TempBase, "TT_10", {SENTINEL})
    \cup Vary(TempBase, "TM5_10", {SENTINEL})
    \cup Vary(TempBase, "RF_10", {SENTINEL})
    \cup Vary(TempBase, "TD_10", SentinelSpellings)

HexA == Repeat("a", 32)

HexB == Repeat("b", 32)

UuidTexts == {Hyphenated(HexA), Repeat("A", 32), Hyphenated(HexB), <<"x">>}

PegelMeasBase ==
    [timestamp |-> Iso("+01:00"), value |-> 238000,
     stateMnwMhw |-> <<"normal">>, stateNswHsw |-> <<"unknown">>]

PegelMeasRows ==
    {PegelMeasBase, Without(PegelMeasBase, "timestamp")}
    \cup {DictSet(PegelMeasBase, "uuid", u) : u \in UuidTexts}
    \cup Vary(PegelMeasBase, "timestamp",
              {Iso("Z"), Iso("+00:00"), Iso("-01:00"), Iso(""), TsJunk, TsNone})
    \cup Vary(PegelMeasBase, "value", {238500})

PegelForecastBase ==
    [initialized |-> Iso("+01:00"), timestamp |-> Iso("+01:00"), value |-> 238000,
     type |-> <<"forecast">>]

PegelForecastRows ==
    {PegelForecastBase, DictSet(PegelForecastBase, "uuid", Hyphenated(HexB))}
    \cup Vary(PegelForecastBase, "initialized", {Iso(""), Iso("-01:00")})
    \cup Vary(PegelForecastBase, "timestamp", {Iso("Z"), TsJunk})
    \cup Vary(PegelForecastBase, "type", {<<"estimate">>, <<"x">>})

UuidContexts == {[uuid |-> u] : u \in {Hyphenated(HexA), HexB, <<"x">>, PyNone}}

LocalZones == {0, 60}

MosmixBase ==
    [issue_time |-> Iso("Z"), timestamp |-> Iso("Z"), RR1c |-> <<"0", ".", "1">>,
     RR3c |-> <<"0", ".", "3">>, TTT |-> <<"2", "8", "0", ".", "5">>]

MosmixRows ==
    {MosmixBase, Without(MosmixBase, "RR3c"), Without(MosmixBase, "issue_time"),
     DictSet(MosmixBase, "station_id", <<"0", "0", "0", "4", "5">>)}
    \cup Vary(MosmixBase, "issue_time", {Iso("+01:00"), Iso(""), TsNone, TsJunk})
    \cup Vary(MosmixBase, "timestamp", {Iso("+00:00"), Iso("-01:00"), TsDay})
    \cup Vary(MosmixBase, "RR1c", {DASH, <<"x">>, <<"0", ".", "0">>})
    \cup Vary(MosmixBase, "TTT", {DASH})

MosmixContexts == {[station_id |-> e] : e \in {<<"0", "0", "0", "4", "4">>, <<>>, PyNone}}

ClimateStationBase ==
    [Stations_id |-> <<"0", "0", "0", "4", "4">>, von_datum |-> TsDay, bis_datum |-> TsDay,
     Stationshoehe |-> <<"4", "4">>, geoBreite |-> <<"1", ".", "5">>,
     geoLaenge |-> <<"2", ".", "5">>, Stationsname |-> <<"Aachen">>,
     Bundesland |-> <<"Hessen">>, Abgabe |-> <<"Frei">>]

ClimateStationRows ==
    {ClimateStationBase, Without(ClimateStationBase, "Abgabe")}
    \cup Vary(ClimateStationBase, "Stations_id",
              {<<"4", "4">>, <<"4">>, <<"0", "0", "4", "4", "x">>,
               <<"1", "2", "3", "4", "5", "6">>})
    \cup Vary(ClimateStationBase, "von_datum", {Ts1200, Iso("+01:00"), Iso("Z"), TsNone})
    \cup Vary(ClimateStationBase, "bis_datum", {Iso("")})
    \cup Vary(ClimateStationBase, "Abgabe", {DASH})
    \cup Vary(ClimateStationBase, "Stationshoehe", {<<"x">>})

MosmixStationBase ==
    [ID |-> <<"0", "1", "0", "0", "1">>, ICAO |-> DASHES, NAME |-> <<"Aachen">>,
     LAT |-> <<"1", ".", "5">>, LON |-> <<"2", ".", "5">>, ELEV |-> <<"1", "0">>]

MosmixStationRows ==
    {MosmixStationBase}
    \cup Vary(MosmixStationBase, "ID",
              {<<"4", "4">>, <<"E", "W", "0", "0", "2">>, <<"a", "b", "c">>})
    \cup Vary(MosmixStationBase, "ICAO", {<<"E", "D", "D", "F">>})
    \cup Vary(MosmixStationBase, "LAT", {<<"x">>})

RHEIN == <<"R", "H", "E", "I", "N">>

DONAU == <<"D", "O", "N", "A", "U">>

MAIN == <<"M", "A", "I", "N">>

KANAL == <<"K", "A", "N", "A", "L">>

MAIN_DONAU_KANAL == MAIN \o <<"-">> \o DONAU \o <<"-">> \o KANAL

Water(longname) == [shortname |-> longname, longname |-> longname]

PegelStationBase ==
    [uuid |-> Hyphenated(HexA), number |-> <<"4", "8">>, shortname |-> <<"BONN">>,
     longname |-> <<"BONN">>, km |-> 654800, agency |-> <<"WSA">>,
     longitude |-> Num(7100), latitude |-> Num(50700), water |-> Water(RHEIN)]

PegelStationRows ==
    {PegelStationBase, Without(PegelStationBase, "longitude"),
     Without(PegelStationBase, "water")}
    \cup Vary(PegelStationBase, "water",
              {Water(DONAU), Water(MAIN), Water(MAIN_DONAU_KANAL), Water(<<>>),
               Water(RHEIN \o <<",">> \o DONAU), [shortname |-> RHEIN]})

PegelStationMix ==
    {PegelStationBase} \cup Vary(PegelStationBase, "water", {Water(DONAU), Water(MAIN)})

\* params of the request: none, without "waters", or with "waters" as the
\* comma-separated text of the request or as a list of names
WatersContexts ==
    {<<>>, [limit |-> 2]}
    \cup {[limit |-> 2, waters |-> w] :
            w \in {WatersText(RHEIN \o <<",">> \o DONAU), WatersText(MAIN_DONAU_KANAL),
                   WatersList(<<RHEIN, DONAU>>)}}

\* the rows that the longer lists mix: well-formed, sentinel, wrong id,
\* invalid and escaping ones
PrecipMix ==
    {PrecipBase, Without(PrecipBase, "STATIONS_ID")}
    \cup Vary(PrecipBase, "STATIONS_ID", {<<"4", "5">>})
    \cup Vary(PrecipBase, "RWS_10", {SENTINEL, <<"x">>, PyNone})

TempMix ==
    {TempBase, Without(TempBase, "STATIONS_ID")}
    \cup Vary(TempBase, "STATIONS_ID", {<<"4", "5">>})
    \cup Vary(TempBase, "PP_10", {SENTINEL, <<"x">>, PyNone})

PegelForecastMix ==
    {PegelForecastBase}
    \cup Vary(PegelForecastBase, "initialized", {Iso("")})
    \cup Vary(PegelForecastBase, "timestamp", {Iso("Z"), TsJunk})

MosmixMix ==
    {MosmixBase, Without(MosmixBase, "RR3c")}
    \cup Vary(MosmixBase, "issue_time", {Iso("+01:00")})
    \cup Vary(MosmixBase, "RR1c", {DASH, <<"x">>})

ClimateStationMix ==
    {ClimateStationBase, Without(ClimateStationBase, "Abgabe")}
    \cup Vary(ClimateStationBase, "Stations_id", {<<"4", "4">>})
    \cup Vary(ClimateStationBase, "Abgabe", {DASH})

MosmixStationMix ==
    {MosmixStationBase}
    \cup Vary(MosmixStationBase, "ID", {<<"4", "4">>, <<"a", "b", "c">>})

\* the lists of one row of S, and of at most MaxRows rows of Mix
RowLists(S, Mix) == {<<r>> : r \in S} \cup UNION {[1..n -> Mix] : n \in 0..MaxRows}

----------------------------------------------------------------------------
(* The validation calls *)

InitValidate ==
    /\ pc = "parsed"
    /\ content = <<>>
    /\ result = NoResult
    /\ calls = <<>>
    /\ \/ /\ schema \in {"DWDPercipitationMeasurements", "DWDTemperatureMeasurements"}
          /\ raw \in IF schema = "DWDPercipitationMeasurements"
                     THEN RowLists(PrecipRows, PrecipMix)
                     ELSE RowLists(TempRows, TempMix)
          /\ context \in {[station_id |-> e] : e \in ExpectedIds}
          /\ localtz = 0
       \/ /\ schema = "PegelonlineMeasurements"
          /\ raw \in {<<r>> : r \in PegelMeasRows}
          /\ context \in UuidContexts
          /\ localtz \in LocalZones
       \/ /\ schema = "PegelonlineForecasts"
          /\ raw \in RowLists(PegelForecastRows, PegelForecastMix)
          /\ context \in UuidContexts
          /\ localtz \in LocalZones
       \/ /\ schema = "DWDMosmixLForecasts"
          /\ raw \in RowLists(MosmixRows, MosmixMix)
          /\ context \in MosmixContexts
          /\ localtz = 0
       \/ /\ schema \in {"DWDPercipitationStations", "DWDTemperatureStations"}
          /\ raw \in RowLists(ClimateStationRows, ClimateStationMix)
          /\ context = <<>>
          /\ localtz = 0
       \/ /\ schema = "DWDMosmixLStations"
          /\ raw \in RowLists(MosmixStationRows, MosmixStationMix)
          /\ context = <<>>
          /\ localtz = 0
       \/ /\ schema = "PegelonlineStations"
          /\ raw \in RowLists(PegelStationRows, PegelStationMix)
          /\ context \in WatersContexts
          /\ localtz = 0
    /\ rows = raw

\* cls.validate(raw, ...) hands the rows to the adapter and returns (or
\* raises) what the adapter does
Returned(out) ==
    /\ pc = "parsed"
    /\ result' = [status |-> out.status, records |-> out.records]
    /\ rows' = out.rows
    /\ pc' = "done"
    /\ UNCHANGED <<schema, content, raw, context, localtz, calls>>

DWDPercipitationMeasurements_validate ==
    /\ schema = "DWDPercipitationMeasurements"
    /\ Returned(ValidateList(rows, [i \in 1..Len(rows) |->
                                       MeasRow(PrecipFields, rows[i], context)]))

DWDTemperatureMeasurements_validate ==
    /\ schema = "DWDTemperatureMeasurements"
    /\ Returned(ValidateList(rows, [i \in 1..Len(rows) |->
                                       MeasRow(TempFields, rows[i], context)]))

\* PegelonlineMeasurements.validate(raw, uuid): the adapter takes one dict
PegelonlineMeasurements_validate ==
    /\ schema = "PegelonlineMeasurements"
    /\ Returned(ValidateOne(PegelMeasRow(rows[1], context, localtz)))

PegelonlineForecasts_validate ==
    /\ schema = "PegelonlineForecasts"
    /\ Returned(ValidateList(rows, [i \in 1..Len(rows) |->
                                       PegelForecastRow(rows[i], context, localtz)]))

DWDMosmixLForecasts_validate ==
    /\ schema = "DWDMosmixLForecasts"
    /\ Returned(ValidateList(rows, [i \in 1..Len(rows) |-> MosmixRow(rows[i], context)]))

DWDPercipitationStations_validate ==
    /\ schema = "DWDPercipitationStations"
    /\ Returned(ValidateList(rows, [i \in 1..Len(rows) |->
                                       ClimateStationRow(schema, rows[i])]))

DWDTemperatureStations_validate ==
    /\ schema = "DWDTemperatureStations"
    /\ Returned(ValidateList(rows, [i \in 1..Len(rows) |->
                                       ClimateStationRow(schema, rows[i])]))

DWDMosmixLStations_validate ==
    /\ schema = "DWDMosmixLStations"
    /\ Returned(ValidateList(rows, [i \in 1..Len(rows) |-> MosmixStationRow(rows[i])]))

PegelonlineStations_validate ==
    /\ schema = "PegelonlineStations"
    /\ Returned(ValidateList(rows, [i \in 1..Len(rows) |->
                                       PegelStationRow(rows[i], context)]))

NextValidate ==
    \/ DWDPercipitationMeasurements_validate
    \/ DWDTemperatureMeasurements_validate
    \/ PegelonlineMeasurements_validate
    \/ PegelonlineForecasts_validate
    \/ DWDMosmixLForecasts_validate
    \/ DWDPercipitationStations_validate
    \/ DWDTemperatureStations_validate
    \/ DWDMosmixLStations_validate
    \/ PegelonlineStations_validate

SpecValidate == InitValidate /\ [][NextValidate]_vars

----------------------------------------------------------------------------
(* Properties of the validation calls *)

MeasurementTypes == {"DWDPercipitationMeasurements", "DWDTemperatureMeasurements"}

PegelonlineTypes == {"PegelonlineMeasurements", "PegelonlineForecasts"}

ClimateStationTypes == {"DWDPercipitationStations", "DWDTemperatureStations"}

Done == pc = "done"

Succeeded == pc = "done" /\ result.status = "ok"

RowIndices == 1..Len(raw)

\* a supplied expected id: the context entry is neither None nor empty
ExpectedSupplied(key) == Has(context, key) /\ context[key] \notin {PyNone, <<>>}

\* a bare numeral of at most 5 digits, and the same left-padded with zeros
BareNumeral(v) == v # PyNone /\ Len(v) \in 1..5 /\ IsDigits(v)

PadZeros(v) == [i \in 1..5 |-> IF i <= 5 - Len(v) THEN "0" ELSE v[i - (5 - Len(v))]]

\* the identifier that row i of the input carries itself, if any
EmbeddedId(i) ==
    CASE schema \in MeasurementTypes ->
            IF Has(raw[i], "STATIONS_ID") /\ BareNumeral(raw[i]["STATIONS_ID"])
            THEN <<PadZeros(raw[i]["STATIONS_ID"])>> ELSE <<>>
      [] schema = "DWDMosmixLForecasts" ->
            IF Has(raw[i], "station_id") THEN <<raw[i]["station_id"]>> ELSE <<>>
      [] schema \in PegelonlineTypes ->
            IF Has(raw[i], "uuid") /\ PydanticUuid(raw[i]["uuid"]).st = "ok"
            THEN <<PydanticUuid(raw[i]["uuid"]).v>> ELSE <<>>
      [] OTHER -> <<>>

\* the identifier that the context expects
ExpectedId ==
    CASE schema \in MeasurementTypes \cup {"DWDMosmixLForecasts"} -> context["station_id"]
      [] schema \in PegelonlineTypes -> PydanticUuid(context["uuid"]).v

ExpectedGiven ==
    CASE schema \in MeasurementTypes \cup {"DWDMosmixLForecasts"} -> ExpectedSupplied("station_id")
      [] schema \in PegelonlineTypes ->
            ExpectedSupplied("uuid") /\ PydanticUuid(context["uuid"]).st = "ok"
      [] OTHER -> FALSE

DatetimeFields ==
    CASE schema \in MeasurementTypes \cup {"PegelonlineMeasurements"} -> {"timestamp"}
      [] schema = "PegelonlineForecasts" -> {"initialized", "timestamp"}
      [] schema = "DWDMosmixLForecasts" -> {"issue_time", "timestamp"}
      [] schema \in ClimateStationTypes -> {"start_date", "end_date"}
      [] OTHER -> {}

\* C2: every datetime field of every record that validate returns has
\* tzinfo UTC, whatever offset, or none, the raw value carried.
C2_TimestampsAreUtc ==
    Succeeded
        => \A i \in 1..Len(result.records) : \A f \in DatetimeFields :
              result.records[i][f].tz = UTC

\* C2 witness: a Pegelonline measurement whose raw timestamp carries the
\* offset +01:00, or none, has been validated.
C2_Witness ==
    /\ Succeeded
    /\ schema = "PegelonlineMeasurements"
    /\ raw[1]["timestamp"].sfx \in {"+01:00", ""}

\* the optional numeric fields with sentinel "-999": field name, source
\* alias, and the number -999 in the unit of the field
SentinelFields ==
    IF schema = "DWDPercipitationMeasurements"
    THEN { <<"precipitation_duration", "RWS_DAU_10", -999>>,
           <<"precipitation_amount", "RWS_10", -999000>>,
           <<"precipitation_index", "RWS_IND_10", -999>> }
    ELSE { <<"pressure_hpa", "PP_10", -999000>>, <<"temperature_2m", "TT_10", -999000>>,
           <<"temperature_5cm", "TM5_10", -999000>>,
           <<"relative_humidity", "RF_10", -999000>>,
           <<"dew_point_temperature", "TD_10", -999000>> }

\* C3 as stated: in a validated precipitation or temperature measurement a
\* raw "-999" has become None, and no optional numeric field holds the
\* number -999.
C3_SentinelNeverNumeric ==
    (Succeeded /\ schema \in MeasurementTypes)
        => \A i \in RowIndices : \A f \in SentinelFields :
              /\ raw[i][f[2]] = SENTINEL => result.records[i][f[1]] = None
              /\ result.records[i][f[1]] # Num(f[3])

\* C6: a bare numeral STATIONS_ID of at most 5 digits is left-padded with
\* zeros to 5 characters before the comparison with a supplied expected id:
\* the row passes the id check exactly when the padded id equals the
\* expected id, and the validated record holds the padded id.
C6_PaddedBeforeComparison ==
    (Done /\ schema \in MeasurementTypes)
        => \A i \in RowIndices :
              (Has(raw[i], "STATIONS_ID") /\ BareNumeral(raw[i]["STATIONS_ID"]))
                  => LET padded == PadZeros(raw[i]["STATIONS_ID"])
                         base == IF schema = "DWDPercipitationMeasurements"
                                 THEN PrecipBase ELSE TempBase
                     IN  /\ result.status = "ok" => result.records[i].station_id = padded
                         /\ (ExpectedGiven /\ padded # ExpectedId) => result.status # "ok"
                         /\ ( /\ ExpectedGiven
                              /\ padded = ExpectedId
                              /\ raw = <<[base EXCEPT !["STATIONS_ID"] = raw[i]["STATIONS_ID"]]>> )
                                => result.status = "ok"

\* C6 witness: the row with STATIONS_ID "44" has been validated against the
\* expected id "00044" and the record holds "00044".
C6_Witness ==
    /\ Succeeded
    /\ schema = "DWDPercipitationMeasurements"
    /\ context["station_id"] = <<"0", "0", "0", "4", "4">>
    /\ Len(raw) = 1
    /\ raw[1]["STATIONS_ID"] = <<"4", "4">>
    /\ result.records[1].station_id = <<"0", "0", "0", "4", "4">>

ShortNumeral(v) == BareNumeral(v) /\ Len(v) < 5

\* the key of the DWD station identifier in a raw row, the well-formed row
\* and the field that holds the identifier in the record
StationIdKey ==
    CASE schema \in MeasurementTypes -> "STATIONS_ID"
      [] schema \in ClimateStationTypes -> "Stations_id"
      [] schema = "DWDMosmixLStations" -> "ID"
      [] OTHER -> ""

\* C7 as stated: for every record type with a DWD station identifier, the
\* station catalogs included, a bare numeral shorter than 5 digits is
\* zero-padded before the format check: an otherwise well-formed row
\* validates and the record holds the padded id.
C7_EveryTypePads ==
    (Done /\ schema \in ClimateStationTypes /\ Len(raw) = 1
          /\ raw[1] = [ClimateStationBase EXCEPT !["Stations_id"] = <<"4", "4">>])
        => /\ result.status = "ok"
           /\ result.records[1].station_id = <<"0", "0", "0", "4", "4">>

\* C7 amended: the two measurement types zero-pad a bare numeral shorter
\* than 5 digits, so their record holds the 5-digit id; the precipitation
\* and temperature station-catalog types do not pad, there such an id fails
\* the 5-digit format check and validation fails; the MOSMIX station type
\* keeps the id as it arrived.
C7_OnlyMeasurementsPad ==
    Done
        => \A i \in RowIndices :
              LET key == StationIdKey
              IN  (Has(raw[i], key) /\ ShortNumeral(raw[i][key]))
                    => /\ (schema \in MeasurementTypes /\ result.status = "ok")
                            => result.records[i].station_id = PadZeros(raw[i][key])
                       /\ schema \in ClimateStationTypes => result.status # "ok"
                       /\ (schema = "DWDMosmixLStations" /\ result.status = "ok")
                            => result.records[i].id = raw[i][key]

\* C7 witness: a precipitation station-catalog row with Stations_id "44"
\* has failed validation.
C7_Witness ==
    /\ Done
    /\ schema = "DWDPercipitationStations"
    /\ Len(raw) = 1
    /\ raw[1] = [ClimateStationBase EXCEPT !["Stations_id"] = <<"4", "4">>]
    /\ result.status = "ValidationError"

----------------------------------------------------------------------------
(* Properties of the type adapters *)

\* what validation gives for one row of the input taken alone
RowAlone(row) ==
    CASE schema = "DWDPercipitationMeasurements" -> MeasRow(PrecipFields, row, context)
      [] schema = "DWDTemperatureMeasurements" -> MeasRow(TempFields, row, context)
      [] schema = "PegelonlineMeasurements" -> PegelMeasRow(row, context, localtz)
      [] schema = "PegelonlineForecasts" -> PegelForecastRow(row, context, localtz)
      [] schema = "DWDMosmixLForecasts" -> MosmixRow(row, context)
      [] schema \in ClimateStationTypes -> ClimateStationRow(schema, row)
      [] schema = "DWDMosmixLStations" -> MosmixStationRow(row)
      [] schema = "PegelonlineStations" -> PegelStationRow(row, context)

RecordTypes ==
    MeasurementTypes \cup PegelonlineTypes \cup ClimateStationTypes
        \cup {"DWDMosmixLForecasts", "DWDMosmixLStations", "PegelonlineStations"}

Validation == pc = "done" /\ schema \in RecordTypes /\ content = <<>>

\* C14: validate on a list of n rows returns exactly n records, record i
\* being that of row i, when every row is valid; when at least one row is
\* invalid it fails and returns no record.
C14_AllRowsOrNone ==
    Validation
        => IF \A i \in RowIndices : RowAlone(raw[i]).st = "ok"
           THEN /\ result.status = "ok"
                /\ Len(result.records) = Len(raw)
                /\ \A i \in RowIndices : result.records[i] = RowAlone(raw[i]).rec
           ELSE /\ result.status # "ok"
                /\ result.records = <<>>

\* C14 witness: a list of two different precipitation rows has been
\* validated into two records, the second with the sentinel turned to None.
C14_Witness ==
    /\ Validation /\ schema = "DWDPercipitationMeasurements"
    /\ result.status = "ok"
    /\ Len(raw) = 2
    /\ raw[1] = PrecipBase
    /\ raw[2] = [PrecipBase EXCEPT !["RWS_10"] = SENTINEL]
    /\ Len(result.records) = 2
    /\ result.records[1].precipitation_amount = Num(500)
    /\ result.records[2].precipitation_amount = None

\* C15 as stated: whatever makes a row invalid (a required key that is
\* missing, a None value, text that is no number, an id mismatch), validate
\* fails with pydantic's ValidationError and with no other exception.
C15_OnlyValidationError ==
    (Validation /\ result.status # "ok") => result.status = "ValidationError"

\* an ISO text that spells UTC: suffix "Z" or "+00:00"
SpellsUtc(v) == v.fmt = "ISO" /\ v.sfx \in {"Z", "+00:00"}

\* C16: validation of MOSMIX forecasts fails when issue_time or timestamp
\* of a row does not spell UTC (another offset, or none); a returned record
\* holds the wall-clock time of the text, unconverted, with tzinfo UTC.
C16_NonUtcRejected ==
    (Validation /\ schema = "DWDMosmixLForecasts")
        => \A i \in RowIndices : \A key \in {"issue_time", "timestamp"} :
              /\ (Has(raw[i], key) /\ raw[i][key] # TsNone /\ ~SpellsUtc(raw[i][key]))
                    => result.status # "ok"
              /\ result.status = "ok"
                    => /\ SpellsUtc(raw[i][key])
                       /\ result.records[i][key] = DateTime(raw[i][key].wall, UTC)

\* C16 witness: a MOSMIX row with issue_time at offset +01:00 has been
\* rejected with a ValidationError.
C16_Witness ==
    /\ Validation /\ schema = "DWDMosmixLForecasts"
    /\ Len(raw) = 1
    /\ raw[1] = [MosmixBase EXCEPT !["issue_time"] = Iso("+01:00")]
    /\ result.status = "ValidationError"

\* midnight UTC of the calendar day that a YYYYMMDD text spells
MidnightUtc(v) == DateTime(v.wall, UTC)

\* C17 as stated: both climate station-catalog types read von_datum and
\* bis_datum as YYYYMMDD: a well-formed row validates, and a date such as
\* "20200101" gives midnight UTC of that day in both types.
C17_StationDatesAreYYYYMMDD ==
    (Validation /\ schema \in ClimateStationTypes)
        => /\ raw = <<ClimateStationBase>> => result.status = "ok"
           /\ result.status = "ok"
                => \A i \in RowIndices :
                      /\ raw[i]["von_datum"].fmt = "YYYYMMDD"
                            => result.records[i].start_date = MidnightUtc(raw[i]["von_datum"])
                      /\ raw[i]["bis_datum"].fmt = "YYYYMMDD"
                            => result.records[i].end_date = MidnightUtc(raw[i]["bis_datum"])

\* C20 as stated: after a validate call, successful or not, every row of
\* the caller's input has the keys and the values that it had before.
C20_InputUnchanged ==
    Validation => rows = raw

----------------------------------------------------------------------------
(* The MOSMIX forecast path: parse the KML, then validate its rows *)

Tok01 == <<"0", ".", "1">>

Tok02 == <<"0", ".", "2">>

Tok03 == <<"0", ".", "3">>

Tok280 == <<"2", "8", "0", ".", "5">>

\* a value text as the provider writes it: every value after blanks
RECURSIVE ValueText(_)
ValueText(toks) ==
    IF toks = <<>> THEN <<" ">> ELSE <<" ", " ">> \o Head(toks) \o ValueText(Tail(toks))

Step(k) == TsText("ISO", 26298000 + 60 * k, "Z", 0)

Steps(n) == [i \in 1..n |-> Step(i)]

TokenLists(S) == UNION {[1..n -> S] : n \in 0..MaxSteps}

Element(name, value) == [elementName |-> name, value |-> value]

\* the RR1c element: none, one without value text, or any values
RR1cElements ==
    {<<>>, <<Element("RR1c", NoText)>>}
    \cup {<<Element("RR1c", <<ValueText(t)>>)>> : t \in TokenLists({Tok01, Tok02, DASH})}

\* the RR3c element: none, one value per timestamp, or one value less
RR3cElements(n) ==
    {<<>>, <<Element("RR3c", <<ValueText(Repeat(Tok03, n))>>)>>}
    \cup {<<Element("RR3c", <<ValueText(Repeat(Tok03, n - 1))>>)>> : m \in {n} \ {0}}

\* the TTT element: none, one value per timestamp, one value more, or junk
TTTElements(n) ==
    {<<>>, <<Element("TTT", <<ValueText(Repeat(Tok280, n))>>)>>,
     <<Element("TTT", <<ValueText(Repeat(Tok280, n + 1))>>)>>,
     <<Element("TTT", <<ValueText(Repeat(<<"x">>, n))>>)>>}

\* an element of another parameter
OtherElements == {<<>>, <<Element("FF", <<ValueText(<<Tok01>>)>>)>>}

\* the RR1c element with one value per timestamp, the last of them "-"
RR1cDashLast(n) ==
    {<<Element("RR1c", <<ValueText([i \in 1..n |-> IF i = n THEN DASH ELSE Tok01])>>)>>}

Kml(it, n, forecasts) ==
    [IssueTime |-> it, TimeSteps |-> Steps(n), Placemark |-> TRUE, Forecasts |-> forecasts]

\* documents with any RR1c element beside complete RR3c and TTT elements,
\* and documents that vary the issue time and the other elements
KmlDocuments ==
    UNION {
        {Kml(<<Iso("Z")>>, n, a \o <<Element("RR3c", <<ValueText(Repeat(Tok03, n))>>),
                                      Element("TTT", <<ValueText(Repeat(Tok280, n))>>)>>) :
            a \in RR1cElements}
        \cup {Kml(it, n, o \o a \o b \o c) :
                it \in {<<Iso("Z")>>, <<>>}, o \in OtherElements,
                a \in {<<>>} \cup RR1cDashLast(n),
                b \in RR3cElements(n), c \in TTTElements(n)} : n \in 0..MaxSteps}

Tok99 == <<"9", "9">>

\* an RR1c element with one value per timestamp
RR1cFull(n) == <<Element("RR1c", <<ValueText(Repeat(Tok01, n))>>)>>

\* elements of other parameters: with a value, without value text, or both
ForeignElements ==
    {<<Element("FF", <<ValueText(<<Tok99>>)>>)>>, <<Element("FF", NoText)>>,
     <<Element("DD", NoText), Element("FF", <<ValueText(<<Tok99, Tok99>>)>>)>>}

\* documents with a defect: an empty IssueTime, a TimeStep without text, no
\* Placemark, an allow-listed element without value text; and documents
\* that hold elements of other parameters before, after or instead of the
\* allow-listed ones
KmlFaults ==
    UNION {
        {Kml(<<TsNone>>, n, RR1cFull(n)),
         [Kml(<<Iso("Z")>>, n, RR1cFull(n)) EXCEPT !.TimeSteps = Steps(n) \o <<TsNone>>],
         [Kml(<<Iso("Z")>>, n, RR1cFull(n)) EXCEPT !.TimeSteps = <<TsNone>> \o Steps(n)],
         [Kml(<<Iso("Z")>>, n, RR1cFull(n)) EXCEPT !.Placemark = FALSE],
         Kml(<<Iso("Z")>>, n, RR1cFull(n) \o <<Element("TTT", NoText)>>),
         Kml(<<Iso("Z")>>, n, <<Element("RR3c", NoText)>> \o RR1cFull(n))}
        \cup {Kml(<<Iso("Z")>>, n, f) : f \in ForeignElements}
        \cup {Kml(<<Iso("Z")>>, n, f \o RR1cFull(n)) : f \in ForeignElements}
        \cup {Kml(<<Iso("Z")>>, n, RR1cFull(n) \o f) : f \in ForeignElements}
        : n \in 1..MaxSteps}

InitMosmix ==
    /\ pc = "fetched"
    /\ schema = "DWDMosmixLForecasts"
    /\ content \in KmlDocuments \cup KmlFaults
    /\ context = [station_id |-> <<"0", "0", "0", "4", "4">>]
    /\ localtz = 0
    /\ raw = <<>>
    /\ rows = <<>>
    /\ result = NoResult
    /\ calls = <<>>

\* parser.parse(response.content); an exception ends the call
DWDMosmixLSingleStationKMZParser_parse ==
    /\ pc = "fetched"
    /\ schema = "DWDMosmixLForecasts"
    /\ LET out == KMZParse(content)
       IN  IF out.status = "ok"
           THEN /\ raw' = out.rows
                /\ rows' = out.rows
                /\ pc' = "parsed"
                /\ UNCHANGED result
           ELSE /\ result' = [status |-> out.status, records |-> <<>>]
                /\ pc' = "done"
                /\ UNCHANGED <<raw, rows>>
    /\ UNCHANGED <<schema, content, context, localtz, calls>>

NextMosmix ==
    \/ DWDMosmixLSingleStationKMZParser_parse
    \/ DWDMosmixLForecasts_validate

SpecMosmix == InitMosmix /\ [][NextMosmix]_vars

\* the values that the payload gives for a parameter, "-" when it has no
\* element for it
PayloadValues(param) ==
    LET fs == content.Forecasts
        at == {i \in 1..Len(fs) : fs[i].elementName = param}
    IN  IF at = {} THEN Repeat(DASH, Len(content.TimeSteps))
        ELSE Split(fs[Min(at)].value[1])

\* value i of a parameter, "-" where the payload has none
PayloadValue(param, i) ==
    IF i <= Len(PayloadValues(param)) THEN PayloadValues(param)[i] ELSE DASH

Parsed == pc \in {"parsed", "done"} /\ result.status \in {"none", "ok", "ValidationError"}

\* C4 as stated: parse returns exactly one record per forecast timestamp,
\* in timestamp order, each holding RR1c, RR3c and TTT, where a parameter
\* that is absent, or has fewer values than there are timestamps, is "-" at
\* the missing positions.
C4_OneRecordPerTimestamp ==
    (schema = "DWDMosmixLForecasts" /\ content # <<>> /\ Parsed)
        => /\ Len(raw) = Len(content.TimeSteps)
           /\ \A i \in 1..Len(raw) :
                 /\ raw[i].timestamp = content.TimeSteps[i]
                 /\ \A p \in AllowListed : raw[i][p] = PayloadValue(p, i)

\* the defects of a document: IssueTime absent or empty, a TimeStep without
\* text, an allow-listed Forecast element without value element or value
\* text, no allow-listed Forecast element at all
NoIssueTime == content.IssueTime = <<>> \/ content.IssueTime = <<TsNone>>

TimeStepWithoutText == \E i \in 1..Len(content.TimeSteps) : content.TimeSteps[i] = TsNone

AllowListedWithoutValue ==
    \E i \in 1..Len(content.Forecasts) :
        content.Forecasts[i].elementName \in AllowListed /\ content.Forecasts[i].value = NoText

NoAllowListed ==
    \A i \in 1..Len(content.Forecasts) : content.Forecasts[i].elementName \notin AllowListed

Defective == NoIssueTime \/ TimeStepWithoutText \/ AllowListedWithoutValue \/ NoAllowListed

\* the value tokens of the elements of one parameter
TokensOf(param) ==
    UNION {{Split(content.Forecasts[i].value[1])[k] :
                k \in 1..Len(Split(content.Forecasts[i].value[1]))} :
            i \in {j \in 1..Len(content.Forecasts) :
                      /\ content.Forecasts[j].elementName = param
                      /\ content.Forecasts[j].value # NoText}}

ParseFailed == pc = "done" /\ result = [status |-> "ValueError", records |-> <<>>] /\ raw = <<>>

\* C21: parse fails, returning no records, when the IssueTime is absent or
\* empty, when a TimeStep has no text, when an allow-listed Forecast element
\* has no value element or text, and when no allow-listed Forecast element
\* is found.  Forecast elements of other parameters never make it fail (a
\* document with a Placemark and none of these defects is parsed) and never
\* appear in the output (a row has the keys issue_time, timestamp, RR1c,
\* RR3c and TTT, each parameter holding "-" or a value of its own element).
C21_DefectsFailOthersIgnored ==
    (schema = "DWDMosmixLForecasts" /\ content # <<>> /\ pc # "fetched")
        => /\ Defective => ParseFailed
           /\ (~Defective /\ content.Placemark) => Parsed
           /\ \A i \in 1..Len(raw) :
                 /\ DOMAIN raw[i] = {"issue_time", "timestamp"} \cup AllowListed
                 /\ \A p \in AllowListed : raw[i][p] \in TokensOf(p) \cup {DASH}

\* C21 witness: a document whose only defect is an allow-listed element
\* without value text has been refused with no records.
C21_Witness ==
    /\ schema = "DWDMosmixLForecasts" /\ content # <<>>
    /\ ~NoIssueTime /\ ~TimeStepWithoutText /\ ~NoAllowListed
    /\ AllowListedWithoutValue
    /\ ParseFailed

\* the number that a value of the payload spells, in thousandths
NumberOf(tok) ==
    CASE tok = Tok01 -> 100 [] tok = Tok02 -> 200 [] tok = Tok03 -> 300 [] tok = Tok280 -> 280500

\* C5: on the parse-then-validate path a value "-" at timestamp index i
\* gives None in validated record i, never 0.0 and never the text "-", and
\* every other value gives its number at the same index.
C5_DashBecomesNone ==
    (schema = "DWDMosmixLForecasts" /\ content # <<>> /\ Succeeded)
        => \A i \in 1..Len(result.records) : \A p \in AllowListed :
              LET value == PayloadValue(p, i)
                  field == result.records[i][p]
              IN  /\ value = DASH => field = None
                  /\ value # DASH => field = Num(NumberOf(value))

\* C5 witness: RR1c "0.1 0.2 -" with 3 timestamps has been parsed and
\* validated into 3 records, the third with RR1c None.
C5_Witness ==
    /\ schema = "DWDMosmixLForecasts" /\ content # <<>> /\ Succeeded
    /\ Len(content.TimeSteps) = 3
    /\ PayloadValues("RR1c") = <<Tok01, Tok02, DASH>>
    /\ Len(result.records) = 3
    /\ result.records[3].RR1c = None
    /\ result.records[2].RR1c = Num(200)

----------------------------------------------------------------------------
(* Properties of PegelonlineStations *)

\* text.split(sep)
RECURSIVE SplitOn(_, _)
SplitOn(t, sep) ==
    IF \E i \in 1..Len(t) : t[i] = sep
    THEN LET k == Min({i \in 1..Len(t) : t[i] = sep})
         IN  <<SubSeq(t, 1, k - 1)>> \o SplitOn(SubSeq(t, k + 1, Len(t)), sep)
    ELSE <<t>>

\* the water names that a "waters" entry permits
PermittedWaters(waters) ==
    LET names == IF waters.kind = "str" THEN SplitOn(waters.v, ",") ELSE waters.v
    IN  {names[i] : i \in 1..Len(names)}

\* C8 as stated: when the context has a "waters" entry, also when it is the
\* request params with the comma-separated text, validation succeeds only if
\* the water longname of every station is exactly one of the permitted names.
C8_OnlyPermittedWaters ==
    (Succeeded /\ schema = "PegelonlineStations" /\ Has(context, "waters"))
        => \A i \in RowIndices :
              /\ Has(raw[i]["water"], "longname")
              /\ raw[i]["water"]["longname"] \in PermittedWaters(context["waters"])

----------------------------------------------------------------------------
(* The fixed-width station catalog *)

Texts(chars, n) == UNION {[1..k -> chars] : k \in 0..n}

HeaderLines ==
    { <<"I", "D", " ", "N", "A", "M", "E">>, <<" ", "I", "D">>,
      <<"I", "D", " ", " ", "I", "D", " ", "X">>, <<>> }

CatalogSeparators ==
    { <<"-", "-", " ", "-">>, <<"-", "-", "-">>, <<" ", "-", " ", "-", " ", "-">>, <<>> }

\* the lines after the first data line: blank ones and one with text
LaterLines == { <<>>, <<" ", " ">>, <<"a", " ", "a">> }

DataLineLists ==
    {<<>>}
    \cup {<<l>> \o rest : l \in Texts({"a", " "}, MaxLineLen),
                          rest \in UNION {[1..k -> LaterLines] : k \in 0..(MaxLines - 1)}}

\* a header line, a separator line and any number of data lines
Catalogs ==
    {<<h, sep>> \o d : h \in HeaderLines, sep \in CatalogSeparators, d \in DataLineLists}

InitFixedWidth ==
    /\ pc = "fetched"
    /\ schema = "DWDMosmixLStations"
    /\ content \in Catalogs
    /\ context = <<>>
    /\ localtz = 0
    /\ raw = <<>>
    /\ rows = <<>>
    /\ result = NoResult
    /\ calls = <<>>

\* parser.parse(response.content)
DWDMosmixLStationsParser_parse ==
    /\ pc = "fetched"
    /\ schema = "DWDMosmixLStations"
    /\ raw' = StationsParse(content)
    /\ rows' = raw'
    /\ pc' = "parsed"
    /\ UNCHANGED <<schema, content, context, localtz, result, calls>>

NextFixedWidth == DWDMosmixLStationsParser_parse

SpecFixedWidth == InitFixedWidth /\ [][NextFixedWidth]_vars

NonBlank(line) == \E i \in 1..Len(line) : ~IsSpace(line[i])

\* the non-blank lines after the separator line, in input order
NonBlankDataLines == SelectSeq(SubSeq(content, 3, Len(content)), NonBlank)

\* the cells of a data line for the header tokens, in column order
CellsOf(line) ==
    LET headers == Split(content[1])
        boundaries == get_column_boundaries(content[2])
    IN  RowDict(headers, parse_line(line, boundaries), 0, <<>>)

\* C9: for a fixed-width catalog of a header line, a separator line and any
\* number of data lines, parse returns exactly one row per non-blank line
\* after the separator line, in input order.
C9_OneRowPerDataLine ==
    (pc = "parsed" /\ schema = "DWDMosmixLStations" /\ content # <<>>)
        => /\ Len(raw) = Len(NonBlankDataLines)
           /\ \A k \in 1..Len(raw) : raw[k] = CellsOf(NonBlankDataLines[k])

\* C9 witness: a catalog with a blank line between two data lines has been
\* parsed into two rows that differ.
C9_Witness ==
    /\ pc = "parsed" /\ schema = "DWDMosmixLStations" /\ content # <<>>
    /\ Len(content) = 5
    /\ ~NonBlank(content[4])
    /\ Len(raw) = 2
    /\ raw[1] # raw[2]

CatalogParsed == pc = "parsed" /\ schema = "DWDMosmixLStations" /\ content # <<>>

\* the trimmed text of column span number i of a line
SpanText(line, i) ==
    IF Len(line) <= get_column_boundaries(content[2])[i][1] THEN <<>>
    ELSE Strip(SubSeq(line, get_column_boundaries(content[2])[i][1] + 1,
                      Min({Len(line), get_column_boundaries(content[2])[i][2]})))

\* C25 as stated: every row has exactly the header tokens as its keys, in
\* column order, key number i holds the trimmed text of column span number
\* i, and the columns beyond the number of header tokens are dropped.
C25_HeaderTokensAreTheKeys ==
    CatalogParsed
        => \A k \in 1..Len(raw) :
              /\ Keys(raw[k]) = Split(content[1])
              /\ \A i \in 1..Len(raw[k]) : raw[k][i][2] = SpanText(NonBlankDataLines[k], i)

\* the header tokens that have a column span, by position
Paired == 1..Min({Len(Split(content[1])), Len(get_column_boundaries(content[2]))})

\* the first and the last paired position of a header token
FirstAt(h) == Min({i \in Paired : Split(content[1])[i] = h})

LastAt(h) == CHOOSE i \in Paired : Split(content[1])[i] = h
                                   /\ \A j \in Paired : Split(content[1])[j] = h => j <= i

\* C25 as amended: the keys of every row are the distinct header tokens
\* that have a column span, in the order of their first occurrence; a key
\* holds the trimmed text of the column span of its last occurrence; the
\* columns beyond the number of header tokens are dropped, and a header
\* token beyond the number of column spans gives no key.
C25_PairedHeaderTokensAreTheKeys ==
    CatalogParsed
        => \A k \in 1..Len(raw) :
              /\ {raw[k][i][1] : i \in 1..Len(raw[k])} = {Split(content[1])[i] : i \in Paired}
              /\ \A i, j \in 1..Len(raw[k]) :
                    i < j => FirstAt(raw[k][i][1]) < FirstAt(raw[k][j][1])
              /\ \A i \in 1..Len(raw[k]) :
                    raw[k][i][2] = SpanText(NonBlankDataLines[k], LastAt(raw[k][i][1]))

\* C25 witness: a catalog with the one header token "ID" and the separator
\* "-- -" has been parsed, and the row of the line "aaaa" holds "aa" under
\* ID and nothing of the second column.
C25_Witness ==
    /\ CatalogParsed
    /\ Len(content) = 3
    /\ Split(content[1]) = <<<<"I", "D">>>>
    /\ content[2] = <<"-", "-", " ", "-">>
    /\ content[3] = <<"a", "a", "a", "a">>
    /\ raw[1] = <<<<<<"I", "D">>, <<"a", "a">>>>>>

----------------------------------------------------------------------------
(* The column helpers of the fixed-width parser, called on their own *)

InitColumns ==
    /\ pc = "fetched"
    /\ schema = "DWDMosmixLStationsParser"
    /\ content \in {[separator_line |-> sep, line |-> l] :
                      sep \in Texts({"-", " "}, MaxSepLen), l \in Texts({"a", " "}, MaxLineLen)}
    /\ context = <<>>
    /\ localtz = 0
    /\ raw = <<>>
    /\ rows = <<>>
    /\ result = NoResult
    /\ calls = <<>>

\* boundaries = cls._get_column_boundaries(separator_line)
DWDMosmixLStationsParser_get_column_boundaries ==
    /\ pc = "fetched"
    /\ schema = "DWDMosmixLStationsParser"
    /\ raw' = get_column_boundaries(content.separator_line)
    /\ pc' = "bounded"
    /\ UNCHANGED <<schema, content, context, localtz, rows, result, calls>>

\* values = cls._parse_line(line, boundaries)
DWDMosmixLStationsParser_parse_line ==
    /\ pc = "bounded"
    /\ schema = "DWDMosmixLStationsParser"
    /\ result' = [status |-> "ok", records |-> parse_line(content.line, raw)]
    /\ pc' = "done"
    /\ UNCHANGED <<schema, content, context, localtz, raw, rows, calls>>

NextColumns ==
    \/ DWDMosmixLStationsParser_get_column_boundaries
    \/ DWDMosmixLStationsParser_parse_line

SpecColumns == InitColumns /\ [][NextColumns]_vars

SlicedLine == pc = "done" /\ schema = "DWDMosmixLStationsParser"

\* the text of the line from offset start on, without the blanks at its ends
TrimmedFrom(line, start) == Strip(SubSeq(line, start + 1, Len(line)))

\* C10: a data line whose length is at most a column's start offset gives
\* the empty text for that column and every later column, a line that ends
\* inside a column gives the trimmed remainder, and slicing a line of any
\* length, the empty line included, gives a value for every column.
C10_ShortLineGivesEmptyCells ==
    SlicedLine
        => /\ result.status = "ok"
           /\ Len(result.records) = Len(raw)
           /\ \A j \in 1..Len(raw) :
                 LET start == raw[j][1]
                     end == raw[j][2]
                     n == Len(content.line)
                 IN  /\ n <= start => \A k \in j..Len(raw) : result.records[k] = <<>>
                     /\ (start < n /\ n < end)
                            => result.records[j] = TrimmedFrom(content.line, start)

\* C10 witness: a line that ends with a blank inside the first column, and
\* before the start of the second, has been sliced.
C10_Witness ==
    /\ SlicedLine
    /\ Len(raw) = 2
    /\ raw[1][1] < Len(content.line) /\ Len(content.line) < raw[1][2]
    /\ content.line[Len(content.line)] = " "
    /\ result.records[1] # <<>>
    /\ Len(content.line) <= raw[2][1]
    /\ result.records[2] = <<>>

Bounded == pc \in {"bounded", "done"} /\ schema = "DWDMosmixLStationsParser"

\* the offsets at which a maximal run of dashes starts
RunStarts(line) ==
    {i \in 0..(Len(line) - 1) : line[i + 1] = "-" /\ (i = 0 \/ line[i] # "-")}

\* one past the last dash of the run that starts at offset s
RunEnd(line, s) ==
    Min({e \in (s + 1)..Len(line) : e = Len(line) \/ line[e + 1] # "-"})

\* C24: for a separator line of dashes and blanks _get_column_boundaries
\* returns one (start, end) span per maximal run of dashes, from left to
\* right, where start is the offset of the first dash of the run and end
\* is one past its last dash (the length of the line for a run that
\* reaches the end of the line); the spans are non-empty and each ends
\* before the next starts.
C24_OneSpanPerDashRun ==
    Bounded
        => /\ Len(raw) = Cardinality(RunStarts(content.separator_line))
           /\ \A j \in 1..Len(raw) :
                 /\ raw[j][1] \in RunStarts(content.separator_line)
                 /\ raw[j][2] = RunEnd(content.separator_line, raw[j][1])
                 /\ raw[j][1] < raw[j][2]
                 /\ \A k \in (j + 1)..Len(raw) : raw[j][2] < raw[k][1]

\* C24 witness: the boundaries of " -- -" have been taken: a run of two
\* dashes after a blank, and a run that reaches the end of the line.
C24_Witness ==
    /\ Bounded
    /\ content.separator_line = <<" ", "-", "-", " ", "-">>
    /\ raw = <<<<1, 3>>, <<4, 5>>>>

----------------------------------------------------------------------------
(* The archives, and the delimited parsers of the 10-minute measurements *)

\* An archive is the sequence of its entries in directory order, each with
\* its name (a text) and its data (a sequence of byte values).

MaxEntries == 2

MaxDataLines == 2

\* bytes.decode("latin-1"): a byte is the character of its code point
Latin1(b) ==
    CASE b = 10 -> "\n" [] b = 32 -> " " [] b = 49 -> "1" [] b = 50 -> "2"
      [] b = 51 -> "3" [] b = 59 -> ";" [] b = 65 -> "A" [] b = 66 -> "B"
      [] b = 101 -> "e" [] b = 111 -> "o" [] b = 114 -> "r"

Decode(data) == [i \in 1..Len(data) |-> Latin1(data[i])]

\* str.endswith(suffix)
EndsWith(s, suffix) ==
    Len(s) >= Len(suffix) /\ SubSeq(s, Len(s) - Len(suffix) + 1, Len(s)) = suffix

TXT == <<".", "t", "x", "t">>

\* _extract_kml: the first entry of the archive, decoded
extract_kml(archive) ==
    IF archive = <<>> THEN [status |-> "ValueError", text |-> <<>>]
    ELSE [status |-> "ok", text |-> Decode(archive[1].data)]

NameEndsWithTxt(entry) == EndsWith(entry.name, TXT)

\* variant of the selection that takes every entry, whatever its name
txt_files_Any(archive) == archive

\* txt_files = [f for f in zip_ref.namelist() if f.endswith(".txt")]
txt_files(archive) == SelectSeq(archive, NameEndsWithTxt)

\* the lines that iterating io.StringIO(content) gives, without their "\n"
Lines(content_text) ==
    LET pieces == SplitOn(content_text, "\n")
    IN  IF pieces[Len(pieces)] = <<>> THEN SubSeq(pieces, 1, Len(pieces) - 1) ELSE pieces

\* skipinitialspace=True: the blanks that follow a delimiter are ignored
RECURSIVE SkipInitialSpace(_)
SkipInitialSpace(s) ==
    IF s # <<>> /\ Head(s) = " " THEN SkipInitialSpace(Tail(s)) ELSE s

\* csv.reader(delimiter=";", skipinitialspace=True) on one line without
\* quote characters: an empty line is the empty record
CsvRecord(line) ==
    IF line = <<>> THEN <<>>
    ELSE [i \in 1..Len(SplitOn(line, ";")) |-> SkipInitialSpace(SplitOn(line, ";")[i])]

\* dict(zip(self.fieldnames, row))
RECURSIVE ZipDict(_, _, _, _)
ZipDict(fieldnames, row, i, d) ==
    IF i > Len(fieldnames) \/ i > Len(row) THEN d
    ELSE ZipDict(fieldnames, row, i + 1, Put(d, fieldnames[i], row[i]))

\* for key in self.fieldnames[lr:]: d[key] = self.restval
RECURSIVE RestVal(_, _, _)
RestVal(fieldnames, i, d) ==
    IF i > Len(fieldnames) THEN d
    ELSE RestVal(fieldnames, i + 1, Put(d, fieldnames[i], PyNone))

\* the list that a dict holds under restkey
PyList(l) == [list |-> l]

\* csv.DictReader.__next__ for one record: restkey and restval are None
DictRow(fieldnames, row, d) ==
    IF Len(fieldnames) < Len(row)
    THEN Put(d, PyNone, PyList(SubSeq(row, Len(fieldnames) + 1, Len(row))))
    ELSE IF Len(fieldnames) > Len(row) THEN RestVal(fieldnames, Len(row) + 1, d)
    ELSE d

\* the rows of csv.DictReader: the first record is the field names, empty
\* records are passed over
RECURSIVE DictRows(_, _)
DictRows(fieldnames, lines) ==
    IF lines = <<>> THEN <<>>
    ELSE IF CsvRecord(Head(lines)) = <<>> THEN DictRows(fieldnames, Tail(lines))
    ELSE <<DictRow(fieldnames, CsvRecord(Head(lines)),
                   ZipDict(fieldnames, CsvRecord(Head(lines)), 1, <<>>))>>
             \o DictRows(fieldnames, Tail(lines))

DictReader(lines) ==
    IF lines = <<>> THEN <<>> ELSE DictRows(CsvRecord(Head(lines)), Tail(lines))

EOR == <<"e", "o", "r">>

IsNotEor(pair) == pair[1] # EOR

\* if "eor" in row: row.pop("eor")
PopEor(row) == SelectSeq(row, IsNotEor)

\* a key that is true: neither "" nor None
IsTrueKey(pair) == pair[1] \notin {<<>>, PyNone}

\* row = {k: v for k, v in row.items() if k}
TrueKeys(row) == SelectSeq(row, IsTrueKey)

\* the loop of DWDTenMinNowPercipitationParser.parse
PercipitationRows(reader) == [i \in 1..Len(reader) |-> PopEor(reader[i])]

\* the loop of DWDTenMinNowTemperatureParser.parse
TemperatureRows(reader) == [i \in 1..Len(reader) |-> TrueKeys(PopEor(reader[i]))]

\* the part of both parse methods that reads the archive
ZipText(files) ==
    IF files = <<>> THEN [status |-> "ValueError", text |-> <<>>]
    ELSE [status |-> "ok", text |-> Decode(files[1].data)]

ZipParsed(cls, zipped) ==
    [status |-> zipped.status,
     text |-> zipped.text,
     rows |-> IF zipped.status # "ok" THEN <<>>
              ELSE IF cls = "DWDTenMinNowPercipitationParser"
                   THEN PercipitationRows(DictReader(Lines(zipped.text)))
                   ELSE TemperatureRows(DictReader(Lines(zipped.text)))]

\* DWDTenMinNowPercipitationParser.parse and DWDTenMinNowTemperatureParser.parse
ZipParse(cls, zip_content) == ZipParsed(cls, ZipText(txt_files(zip_content)))

----------------------------------------------------------------------------
(* Inputs of the archive readers *)

Byte(c) ==
    CASE c = "\n" -> 10 [] c = " " -> 32 [] c = "1" -> 49 [] c = "2" -> 50
      [] c = "3" -> 51 [] c = ";" -> 59 [] c = "A" -> 65 [] c = "B" -> 66
      [] c = "e" -> 101 [] c = "o" -> 111 [] c = "r" -> 114

Encode(text) == [i \in 1..Len(text) |-> Byte(text[i])]

\* the lines of a file, each ended by "\n"
RECURSIVE FileText(_)
FileText(lines) ==
    IF lines = <<>> THEN <<>> ELSE Head(lines) \o <<"\n">> \o FileText(Tail(lines))

\* "A;B;eor", "A;B;eor;", "A; B", "eor;A" and the empty line
CsvHeaders ==
    { <<"A", ";", "B", ";", "e", "o", "r">>, <<"A", ";", "B", ";", "e", "o", "r", ";">>,
      <<"A", ";", " ", "B">>, <<"e", "o", "r", ";", "A">>, <<>> }

\* "1;2;eor", "1;2;eor;", "1", "1;2;3;3", " " and the empty line
CsvDataLines ==
    { <<"1", ";", "2", ";", "e", "o", "r">>, <<"1", ";", "2", ";", "e", "o", "r", ";">>,
      <<"1">>, <<"1", ";", "2", ";", "3", ";", "3">>, <<" ">>, <<>> }

\* files of a header line and data lines, the empty file, and a file whose
\* last line has no line break
CsvTexts ==
    {<<>>, <<"A", ";", "B", "\n", "1", ";", "2">>}
    \cup {FileText(<<h>> \o d) :
            h \in CsvHeaders, d \in UNION {[1..n -> CsvDataLines] : n \in 0..MaxDataLines}}

EntryNames ==
    { <<"a", ".", "t", "x", "t">>, <<"b", ".", "t", "x", "t">>, <<"a", ".", "k", "m", "l">>,
      <<"a", ".", "T", "X", "T">>, <<"t", "x", "t">> }

Entry(name, text) == [name |-> name, data |-> Encode(text)]

\* archives of one entry with any file, and archives of any number of
\* entries that tell their entries apart
Archives ==
    {<<Entry(n, t)>> : n \in EntryNames, t \in CsvTexts}
    \cup UNION {[1..k -> {Entry(n, t) : n \in EntryNames,
                                        t \in {<<"A", "\n", "1", "\n">>, <<"A", "\n", "2", "\n">>}}] :
                  k \in 0..MaxEntries}

ArchiveReaders ==
    {"DWDMosmixLSingleStationKMZParser", "DWDTenMinNowPercipitationParser",
     "DWDTenMinNowTemperatureParser"}

InitArchive ==
    /\ pc = "fetched"
    /\ schema \in ArchiveReaders
    /\ content \in Archives
    /\ context = <<>>
    /\ localtz = 0
    /\ raw = <<>>
    /\ rows = <<>>
    /\ result = NoResult
    /\ calls = <<>>

\* kml_content = cls._extract_kml(kmz_content)
DWDMosmixLSingleStationKMZParser_extract_kml ==
    /\ pc = "fetched"
    /\ schema = "DWDMosmixLSingleStationKMZParser"
    /\ result' = [status |-> extract_kml(content).status, records |-> extract_kml(content).text]
    /\ pc' = "done"
    /\ UNCHANGED <<schema, content, context, localtz, raw, rows, calls>>

\* what a parse call of a ZIP reader leaves: the text it read from the
\* archive, and the rows it returns
ZipReturned(out) ==
    /\ pc = "fetched"
    /\ raw' = out.text
    /\ result' = [status |-> out.status, records |-> out.rows]
    /\ pc' = "done"
    /\ UNCHANGED <<schema, content, context, localtz, rows, calls>>

DWDTenMinNowPercipitationParser_parse ==
    /\ schema = "DWDTenMinNowPercipitationParser"
    /\ ZipReturned(ZipParse(schema, content))

DWDTenMinNowTemperatureParser_parse ==
    /\ schema = "DWDTenMinNowTemperatureParser"
    /\ ZipReturned(ZipParse(schema, content))

NextArchive ==
    \/ DWDMosmixLSingleStationKMZParser_extract_kml
    \/ DWDTenMinNowPercipitationParser_parse
    \/ DWDTenMinNowTemperatureParser_parse

SpecArchive == InitArchive /\ [][NextArchive]_vars

ZipReaders == {"DWDTenMinNowPercipitationParser", "DWDTenMinNowTemperatureParser"}

\* the entries of the archive whose name ends in ".txt", by position
TxtEntries == {i \in 1..Len(content) : EndsWith(content[i].name, TXT)}

\* the text that the bytes of entry i spell
TextOfEntry(i) == [k \in 1..Len(content[i].data) |-> Latin1(content[i].data[k])]

ZipParsedRows == pc = "done" /\ schema \in ZipReaders /\ result.status = "ok"

\* C12 as stated: the rows that the precipitation and the temperature
\* parser return hold neither the key "eor" nor the empty key, whatever the
\* input, a header line that ends with ";" included.
C12_NoEorNoEmptyKey ==
    ZipParsedRows
        => \A i \in 1..Len(result.records) : \A k \in 1..Len(result.records[i]) :
              result.records[i][k][1] \notin {EOR, <<>>}

\* C13 as stated: all rows that one call of a tabular parser returns have
\* the same keys in the same order, also when a data line has more or fewer
\* fields than the header line.
C13_SameKeysInEveryRow ==
    ZipParsedRows
        => \A i, j \in 1..Len(result.records) :
              Keys(result.records[i]) = Keys(result.records[j])

\* texts joined by ";"
RECURSIVE JoinFields(_)
JoinFields(fields) ==
    IF fields = <<>> THEN <<>>
    ELSE IF Len(fields) = 1 THEN fields[1]
    ELSE Head(fields) \o <<";">> \o JoinFields(Tail(fields))

IsNamedKey(pair) == pair[1] # PyNone

\* the header line of returned rows: the keys of the first row in their
\* order, the surplus key None having no column of its own
HeaderOf(rws) ==
    IF rws = <<>> THEN <<>> ELSE JoinFields(Keys(SelectSeq(rws[1], IsNamedKey)))

\* the fields that a row writes: a text as it is, None as the empty field
\* (as csv.writer writes it), the surplus list as one field per element
RECURSIVE FieldsOf(_)
FieldsOf(row) ==
    IF row = <<>> THEN <<>>
    ELSE IF Head(row)[1] = PyNone THEN Head(row)[2].list \o FieldsOf(Tail(row))
    ELSE IF Head(row)[2] = PyNone THEN <<<<>>>> \o FieldsOf(Tail(row))
    ELSE <<Head(row)[2]>> \o FieldsOf(Tail(row))

\* rows written back as semicolon-separated text under their header
WrittenBack(rws) ==
    IF rws = <<>> THEN <<>>
    ELSE FileText(<<HeaderOf(rws)>> \o [i \in 1..Len(rws) |-> JoinFields(FieldsOf(rws[i]))])

\* the rows that the parser gives for a text
RowsOfText(cls, text) == ZipParsed(cls, [status |-> "ok", text |-> text]).rows

\* C22 as stated: the rows that a delimited parser returned, written back
\* as semicolon-separated text with the same header order and parsed
\* again, give the same rows.
C22_RoundTrip ==
    ZipParsedRows => RowsOfText(schema, WrittenBack(result.records)) = result.records

----------------------------------------------------------------------------
(* DataExtractor *)

\* A fetch operation asks its client for the endpoint, checks the status of
\* the response, has the parser read the body (the Pegelonline operations
\* take response.json() instead) and hands the outcome to the validate of
\* its schema.  Parser and schema are parameters of the operation: what
\* they return for a body is drawn from small sets.

MaxRowsOut == 2

FetchOperations ==
    {"fetch_pegelonline_stations", "fetch_pegelonline_current_water_level",
     "fetch_pegelonline_forecasted_water_level", "fetch_dwd_mosmix_stations",
     "fetch_dwd_mosmix_single_station", "fetch_dwd_precipitation_stations",
     "fetch_raw_test", "fetch_dwd_precipitation_data", "fetch_dwd_temperature_stations",
     "fetch_dwd_temperature_data"}

\* the operations with a parser argument
ParsedOperations ==
    {"fetch_dwd_mosmix_stations", "fetch_dwd_mosmix_single_station",
     "fetch_dwd_precipitation_stations", "fetch_dwd_precipitation_data",
     "fetch_dwd_temperature_stations", "fetch_dwd_temperature_data"}

\* the operations that take raw = response.json()
JsonOperations ==
    {"fetch_pegelonline_stations", "fetch_pegelonline_current_water_level",
     "fetch_pegelonline_forecasted_water_level"}

\* the operations with a station_id argument
StationOperations ==
    {"fetch_dwd_mosmix_single_station", "fetch_dwd_precipitation_data",
     "fetch_dwd_temperature_data"}

\* the operations whose argument (station_id, uuid or params) goes to validate
ArgumentOperations ==
    StationOperations \cup JsonOperations

\* the client that an operation takes from the client manager
ClientOf(op) ==
    CASE op \in JsonOperations -> "pegelonline"
      [] op = "fetch_dwd_mosmix_stations" -> "dwd"
      [] OTHER -> "dwd_opendata"

\* the arguments of schema.validate: raw alone, or raw and the argument
ValidateArgs(op, raw_data, argument) ==
    IF op \in ArgumentOperations THEN <<raw_data, argument>> ELSE <<raw_data>>

Call(fn, args, out) == [fn |-> fn, args |-> args, out |-> out]

Response(status_code, body) == [status_code |-> status_code, body |-> body]

\* httpx.Response.is_success
IsSuccess(status_code) == status_code \in 200..299

\* variant of the status check that lets every response through
raise_for_status_Never(response) == "ok"

\* response.raise_for_status()
raise_for_status(response) ==
    IF IsSuccess(response.status_code) THEN "ok" ELSE "HTTPStatusError"

StatusCodes == {200, 204, 404, 500}

Bodies == {<<"body1">>, <<"body2">>}

Responses == {Response(c, b) : c \in StatusCodes, b \in Bodies}

\* what a parser, or response.json(), gives for a body: an exception, or rows
RowsOut == UNION {[1..n -> {"row1", "row2"}] : n \in 0..MaxRowsOut}

\* the argument of the call: a station id, a uuid, or the request params
Arguments == {<<"0", "0", "0", "4", "4">>, <<"0", "0", "0", "4", "5">>}

InitExtract ==
    /\ pc = "start"
    /\ schema \in FetchOperations
    /\ context \in IF schema \in ArgumentOperations THEN Arguments ELSE {<<>>}
    /\ content = <<>>
    /\ localtz = 0
    /\ raw = <<>>
    /\ rows = <<>>
    /\ result = NoResult
    /\ calls = <<>>

Failed(error) ==
    /\ result' = [status |-> error, records |-> <<>>]
    /\ pc' = "done"

\* response = client.get(endpoint): a response of any status, or an
\* exception of the transport
client_get ==
    /\ pc = "start"
    /\ schema \in FetchOperations
    /\ calls' = Append(calls, Call("get", <<ClientOf(schema), context>>, <<>>))
    /\ \/ /\ \E response \in Responses : content' = response
          /\ pc' = "responded"
          /\ UNCHANGED result
       \/ /\ Failed("TransportError")
          /\ UNCHANGED content
    /\ UNCHANGED <<schema, context, localtz, raw, rows>>

\* response.raise_for_status()
response_raise_for_status ==
    /\ pc = "responded"
    /\ schema # "fetch_raw_test"
    /\ IF raise_for_status(content) = "ok"
       THEN pc' = "checked" /\ UNCHANGED result
       ELSE Failed(raise_for_status(content))
    /\ UNCHANGED <<schema, content, context, localtz, raw, rows, calls>>

\* fetch_raw_test: return response.content
fetch_raw_test_return ==
    /\ pc = "responded"
    /\ schema = "fetch_raw_test"
    /\ result' = [status |-> "ok", records |-> content.body]
    /\ pc' = "done"
    /\ UNCHANGED <<schema, content, context, localtz, raw, rows, calls>>

\* raw = response.json()
response_json ==
    /\ pc = "checked"
    /\ schema \in JsonOperations
    /\ \/ /\ \E out \in RowsOut : raw' = out
          /\ pc' = "parsed"
          /\ UNCHANGED result
       \/ /\ Failed("JSONDecodeError")
          /\ UNCHANGED raw
    /\ UNCHANGED <<schema, content, context, localtz, rows, calls>>

\* raw_data = parser.parse(response.content)
parser_parse ==
    /\ pc = "checked"
    /\ schema \in ParsedOperations
    /\ \/ /\ \E out \in RowsOut :
                /\ raw' = out
                /\ calls' = Append(calls, Call("parse", <<content.body>>, out))
          /\ pc' = "parsed"
          /\ UNCHANGED result
       \/ /\ calls' = Append(calls, Call("parse", <<content.body>>, <<"raised">>))
          /\ Failed("ValueError")
          /\ UNCHANGED raw
    /\ UNCHANGED <<schema, content, context, localtz, rows>>

\* return schema.validate(raw_data, station_id)
schema_validate ==
    /\ pc = "parsed"
    /\ schema \in FetchOperations
    /\ \/ /\ result' = [status |-> "ok", records |-> raw]
          /\ calls' = Append(calls, Call("validate", ValidateArgs(schema, raw, context), raw))
       \/ /\ result' = [status |-> "ValidationError", records |-> <<>>]
          /\ calls' = Append(calls, Call("validate", ValidateArgs(schema, raw, context),
                                         <<"raised">>))
    /\ pc' = "done"
    /\ UNCHANGED <<schema, content, context, localtz, raw, rows>>

NextExtract ==
    \/ client_get
    \/ response_raise_for_status
    \/ fetch_raw_test_return
    \/ response_json
    \/ parser_parse
    \/ schema_validate

SpecExtract == InitExtract /\ [][NextExtract]_vars

\* the collaborators called so far, in order
Called == [i \in 1..Len(calls) |-> calls[i].fn]

IsPrefix(s, t) == Len(s) <= Len(t) /\ s = SubSeq(t, 1, Len(s))

Fetching == schema \in FetchOperations

\* C18: a fetch operation with a parser calls get, parse and validate in
\* that order and each at most once; after a failed get or a response that
\* is no success it calls neither parser nor validator and the HTTP error is
\* the outcome; after a failed parse it does not call the validator; the
\* parser is given the body of the response, and the validator exactly what
\* the parser returned, with the requested station id when there is one.
C18_FetchParseValidate ==
    (Fetching /\ schema \in ParsedOperations)
        => /\ IsPrefix(Called, <<"get", "parse", "validate">>)
           /\ (pc = "done" /\ content = <<>>)
                => Called = <<"get">> /\ result.status = "TransportError"
           /\ (pc = "done" /\ content # <<>> /\ ~IsSuccess(content.status_code))
                => Called = <<"get">> /\ result.status = "HTTPStatusError"
           /\ Len(calls) >= 2
                => /\ IsSuccess(content.status_code)
                   /\ calls[2].args = <<content.body>>
           /\ (Len(calls) >= 2 /\ calls[2].out = <<"raised">>)
                => pc = "done" /\ Len(calls) = 2 /\ result.status = "ValueError"
           /\ Len(calls) = 3
                => calls[3].args = IF schema \in StationOperations
                                   THEN <<calls[2].out, context>>
                                   ELSE <<calls[2].out>>

\* C18 witness: fetch_dwd_precipitation_data has run to its end, and its
\* validator was called with the two rows of the parser and the station id.
C18_Witness ==
    /\ schema = "fetch_dwd_precipitation_data"
    /\ pc = "done"
    /\ result.status = "ok"
    /\ Called = <<"get", "parse", "validate">>
    /\ calls[2].out = <<"row1", "row2">>
    /\ calls[3].args = <<<<"row1", "row2">>, <<"0", "0", "0", "4", "4">>>>

\* C19 as stated: no fetch operation, fetch_raw_test included, returns data
\* of a response whose status is no success.
C19_NonSuccessIsFatal ==
    (Fetching /\ pc = "done" /\ content # <<>> /\ ~IsSuccess(content.status_code))
        => result.status # "ok"

----------------------------------------------------------------------------
(* The class body of DataExtractor: the defaults of its methods *)

\* Python evaluates the default values of a method when the def statement
\* runs, that is while the class body of DataExtractor runs at the import
\* of extract.py.  A default names an attribute of the module dwd_parser or
\* of the module schemas; a name that the module does not define raises
\* AttributeError, which ends the import.

\* the classes that dwd_parser.py defines
dwd_parser ==
    {"DWDMosmixLSingleStationKMZParser", "DWDTenMinNowPercipitationParser",
     "DWDTenMinNowTemperatureParser", "DWDMosmixLStationsParser",
     "DWDMeasurementStationsParser"}

\* the classes that schemas.py defines
schemas ==
    {"PegelonlineStations", "PegelonlineMeasurements", "PegelonlineForecasts",
     "DWDMosmixLForecasts", "DWDMosmixLStations", "DWDPercipitationStations",
     "DWDPercipitationMeasurements", "DWDTemperatureStations", "DWDTemperatureMeasurements"}

\* the def statements of the class body, in order
Methods ==
    <<"__init__", "__enter__", "__exit__", "close",
      "fetch_pegelonline_stations", "fetch_pegelonline_current_water_level",
      "fetch_pegelonline_forecasted_water_level", "fetch_dwd_mosmix_stations",
      "fetch_dwd_mosmix_single_station", "fetch_dwd_precipitation_stations",
      "fetch_raw_test", "fetch_dwd_precipitation_data", "fetch_dwd_temperature_stations",
      "fetch_dwd_temperature_data">>

\* the name after "dwd_parser." in the default of the parser argument
DefaultParser(op) ==
    CASE op = "fetch_dwd_mosmix_stations" -> "DWDMosmixLStationsParser"
      [] op = "fetch_dwd_mosmix_single_station" -> "DWDMosmixLSingleStationKMZParser"
      [] op = "fetch_dwd_precipitation_stations" -> "DWDTenMinNowPercipitationStationsParser"
      [] op = "fetch_dwd_precipitation_data" -> "DWDTenMinNowPercipitationParser"
      [] op = "fetch_dwd_temperature_stations" -> "DWDTenMinNowTemperatureStationsParser"
      [] op = "fetch_dwd_temperature_data" -> "DWDTenMinNowTemperatureParser"

\* the name after "schemas." in the default of the schema argument
DefaultSchema(op) ==
    CASE op = "fetch_pegelonline_stations" -> "PegelonlineStations"
      [] op = "fetch_pegelonline_current_water_level" -> "PegelonlineMeasurements"
      [] op = "fetch_pegelonline_forecasted_water_level" -> "PegelonlineForecasts"
      [] op = "fetch_dwd_mosmix_stations" -> "DWDMosmixLStations"
      [] op = "fetch_dwd_mosmix_single_station" -> "DWDMosmixLForecasts"
      [] op = "fetch_dwd_precipitation_stations" -> "DWDPercipitationStations"
      [] op = "fetch_dwd_precipitation_data" -> "DWDPercipitationMeasurements"
      [] op = "fetch_dwd_temperature_stations" -> "DWDTemperatureStations"
      [] op = "fetch_dwd_temperature_data" -> "DWDTemperatureMeasurements"

\* whether the defaults of a def statement can be evaluated
DefaultsResolve(m) ==
    /\ m \in ParsedOperations => DefaultParser(m) \in dwd_parser
    /\ m \in ParsedOperations \cup JsonOperations => DefaultSchema(m) \in schemas

\* the import of extract.py on behalf of a caller who is going to call one
\* fetch operation with the default parser and schema: rows holds the
\* methods that the class body has defined so far
InitImport ==
    /\ pc = "import"
    /\ schema \in FetchOperations
    /\ context \in IF schema \in ArgumentOperations THEN Arguments ELSE {<<>>}
    /\ content = <<>>
    /\ localtz = 0
    /\ raw = <<>>
    /\ rows = <<>>
    /\ result = NoResult
    /\ calls = <<>>

\* one def statement of the class body
DataExtractor_def ==
    /\ pc = "import"
    /\ IF DefaultsResolve(Methods[Len(rows) + 1])
       THEN /\ rows' = Append(rows, Methods[Len(rows) + 1])
            /\ pc' = IF Len(rows) + 1 = Len(Methods) THEN "start" ELSE "import"
            /\ UNCHANGED result
       ELSE /\ Failed("AttributeError")
            /\ UNCHANGED rows
    /\ UNCHANGED <<schema, content, context, localtz, raw, calls>>

NextImport == DataExtractor_def

SpecImport == InitImport /\ [][NextImport]_vars

\* the methods that the class body has defined
Defined == {rows[i] : i \in 1..Len(rows)}

CatalogOperations == {"fetch_dwd_precipitation_stations", "fetch_dwd_temperature_stations"}

\* C23 as stated: fetch_dwd_precipitation_stations and
\* fetch_dwd_temperature_stations can be called with their default parser
\* and schema: once the class body has run, both methods exist, the default
\* of their parser argument is a class that dwd_parser defines and the
\* default of their schema argument is DWDPercipitationStations and
\* DWDTemperatureStations respectively.
C23_DefaultStationParsers ==
    (schema \in CatalogOperations /\ pc # "import")
        => /\ result.status # "AttributeError"
           /\ schema \in Defined
           /\ DefaultParser(schema) \in dwd_parser
           /\ DefaultSchema(schema) \in schemas

----------------------------------------------------------------------------
(* DWDMeasurementStationsParser *)

MaxTail == 4

MaxCatalogLines == 4

FREI == <<"F", "r", "e", "i">>

valid_abgabe_values == {FREI}

\* " ".join(parts)
RECURSIVE JoinBlank(_)
JoinBlank(parts) ==
    IF parts = <<>> THEN <<>>
    ELSE IF Len(parts) = 1 THEN parts[1]
    ELSE Head(parts) \o <<" ">> \o JoinBlank(Tail(parts))

\* a line that row.strip() leaves non-empty
IsRow(row) == Strip(row) # <<>>

\* _split_by_rows: [row.strip() for row in raw_txt.split("\n") if row.strip()]
split_by_rows(raw_txt) ==
    [i \in 1..Len(SelectSeq(SplitOn(raw_txt, "\n"), IsRow)) |->
        Strip(SelectSeq(SplitOn(raw_txt, "\n"), IsRow)[i])]

\* _remove_header_delimiter_row: pop(1) when there is more than one row;
\* the last row is never empty here, so the second pop does not happen
remove_header_delimiter_row(row_splitted_txt) ==
    IF Len(row_splitted_txt) > 1
    THEN <<row_splitted_txt[1]>> \o SubSeq(row_splitted_txt, 3, Len(row_splitted_txt))
    ELSE row_splitted_txt

\* variant that takes every last token for the release status
has_abgabe_Always(parts) == TRUE

\* has_abgabe = last_part in cls.valid_abgabe_values
has_abgabe(parts) == parts[Len(parts)] \in valid_abgabe_values

\* parts[6:-k] for a list of at least six parts
NameParts(parts, k) == SubSeq(parts, 7, Len(parts) - k)

\* the dict that _parse_station_row returns for its parts
StationDict(parts, abgabe, bundesland, stationsname_parts) ==
    [Stations_id |-> parts[1], von_datum |-> parts[2], bis_datum |-> parts[3],
     Stationshoehe |-> parts[4], geoBreite |-> parts[5], geoLaenge |-> parts[6],
     Stationsname |-> JoinBlank(stationsname_parts), Bundesland |-> bundesland,
     Abgabe |-> abgabe]

\* _parse_station_row on the parts of a row: parts[5] of a shorter list
\* raises IndexError
StationRowOf(parts) ==
    IF Len(parts) < 6 THEN [status |-> "IndexError", v |-> <<>>]
    ELSE IF has_abgabe(parts)
         THEN [status |-> "ok",
               v |-> StationDict(parts, parts[Len(parts)], parts[Len(parts) - 1],
                                 NameParts(parts, 2))]
         ELSE [status |-> "ok",
               v |-> StationDict(parts, DASH, parts[Len(parts)], NameParts(parts, 1))]

\* _parse_station_row
parse_station_row(row) == StationRowOf(Split(row))

\* _create_json_structure: one dict per row after the header row; a row
\* that raises ends the call
stations_create_json_structure(filtered_rows) ==
    IF \E i \in 2..Len(filtered_rows) : parse_station_row(filtered_rows[i]).status # "ok"
    THEN [status |-> "IndexError", v |-> <<>>]
    ELSE [status |-> "ok",
          v |-> [i \in 1..(Len(filtered_rows) - 1) |-> parse_station_row(filtered_rows[i + 1]).v]]

\* DWDMeasurementStationsParser.parse, after the bytes are decoded
MeasurementStationsParse(raw_txt) ==
    stations_create_json_structure(remove_header_delimiter_row(split_by_rows(raw_txt)))

\* the six fixed tokens of a row, a station name token, a region token
Fixed == <<<<"1">>, <<"2">>, <<"3">>, <<"4">>, <<"5">>, <<"6">>>>

TailTokens == {<<"A">>, <<"B">>, FREI}

\* token lists: the first k fixed tokens alone, the six of them followed by
\* any tokens, and five of them followed by "Frei"
TokenRows ==
    {SubSeq(Fixed, 1, k) : k \in 0..5}
    \cup {Fixed \o t : t \in UNION {[1..n -> TailTokens] : n \in 0..MaxTail}}
    \cup {SubSeq(Fixed, 1, 5) \o <<FREI>>}

\* the tokens of a row, each followed by as many blanks as gap tells
RECURSIVE Spaced(_, _)
Spaced(tokens, gap) ==
    IF tokens = <<>> THEN <<>>
    ELSE Head(tokens) \o Repeat(" ", gap) \o Spaced(Tail(tokens), gap)

\* rows as the catalog writes them: blanks between the tokens, and maybe
\* blanks before the first
StationRowTexts ==
    {Spaced(t, 1) : t \in TokenRows} \cup {<<" ">> \o Spaced(t, 2) : t \in TokenRows}

HeaderRow == Spaced(<<<<"I", "D">>, <<"v", "o", "n">>>>, 1)

DashRow == <<"-", "-", " ", "-", "-">>

RowA == Spaced(Fixed \o <<<<"A">>, <<"B">>>>, 1)

RowB == Spaced(Fixed \o <<<<"B">>, <<"B">>, <<"A">>, FREI>>, 2)

ShortRow == Spaced(SubSeq(Fixed, 1, 3), 1)

CatalogLines == {HeaderRow, DashRow, RowA, RowB, ShortRow, <<>>, <<" ">>}

\* the lines of a catalog, each ended by "\n", and catalogs whose last line
\* is not ended
CatalogTexts ==
    {FileText(l) : l \in UNION {[1..n -> CatalogLines] : n \in 0..MaxCatalogLines}}
    \cup {HeaderRow \o <<"\n">> \o DashRow \o <<"\n">> \o r : r \in {RowA, RowB}}

InitStations ==
    /\ schema = "DWDMeasurementStationsParser"
    /\ \/ pc = "row" /\ content \in StationRowTexts
       \/ pc = "fetched" /\ content \in CatalogTexts
    /\ context = <<>>
    /\ localtz = 0
    /\ raw = <<>>
    /\ rows = <<>>
    /\ result = NoResult
    /\ calls = <<>>

\* station_dict = cls._parse_station_row(row)
DWDMeasurementStationsParser_parse_station_row ==
    /\ pc = "row"
    /\ schema = "DWDMeasurementStationsParser"
    /\ result' = [status |-> parse_station_row(content).status,
                  records |-> parse_station_row(content).v]
    /\ pc' = "done"
    /\ UNCHANGED <<schema, content, context, localtz, raw, rows, calls>>

\* parser.parse(response.content)
DWDMeasurementStationsParser_parse ==
    /\ pc = "fetched"
    /\ schema = "DWDMeasurementStationsParser"
    /\ raw' = split_by_rows(content)
    /\ result' = [status |-> MeasurementStationsParse(content).status,
                  records |-> MeasurementStationsParse(content).v]
    /\ pc' = "parsed"
    /\ UNCHANGED <<schema, content, context, localtz, rows, calls>>

NextStations ==
    \/ DWDMeasurementStationsParser_parse_station_row
    \/ DWDMeasurementStationsParser_parse

SpecStations == InitStations /\ [][NextStations]_vars

RowParsed == pc = "done" /\ schema = "DWDMeasurementStationsParser" /\ result.status = "ok"

\* the position of the token that is the administrative region of a row
RegionAt(parts) == IF parts[Len(parts)] = FREI THEN Len(parts) - 1 ELSE Len(parts)

\* C26: _parse_station_row takes the first six whitespace tokens as
\* Stations_id, von_datum, bis_datum, Stationshoehe, geoBreite and
\* geoLaenge; Abgabe is the last token exactly when that token is "Frei",
\* and "-" otherwise; Bundesland is the token just before the release
\* status, or the last token when there is none; Stationsname is the tokens
\* between the sixth token and the Bundesland token, joined by one blank.
C26_StationRowFields ==
    RowParsed
        => /\ Len(Split(content)) >= 6
           /\ <<result.records.Stations_id, result.records.von_datum, result.records.bis_datum,
                result.records.Stationshoehe, result.records.geoBreite, result.records.geoLaenge>>
                = SubSeq(Split(content), 1, 6)
           /\ result.records.Abgabe
                = (IF Split(content)[Len(Split(content))] = FREI THEN FREI ELSE DASH)
           /\ result.records.Bundesland = Split(content)[RegionAt(Split(content))]
           /\ result.records.Stationsname
                = JoinBlank(SubSeq(Split(content), 7, RegionAt(Split(content)) - 1))

\* C26 witness: the row " 1  2  3  4  5  6  A  B  A  Frei" has been parsed:
\* the station name is "A B", the region "A" and the release status "Frei".
C26_Witness ==
    /\ RowParsed
    /\ content = <<" ">> \o Spaced(Fixed \o <<<<"A">>, <<"B">>, <<"A">>, FREI>>, 2)
    /\ result.records.Stationsname = <<"A", " ", "B">>
    /\ result.records.Bundesland = <<"A">>
    /\ result.records.Abgabe = FREI

\* the tokens that the fields of a returned dict hold, in the order of the
\* fixed fields, the station name, the region and the release status
FieldTokens(rec) ==
    <<rec.Stations_id, rec.von_datum, rec.bis_datum, rec.Stationshoehe, rec.geoBreite,
      rec.geoLaenge>>
    \o Split(rec.Stationsname) \o <<rec.Bundesland>>
    \o (IF rec.Abgabe = FREI THEN <<rec.Abgabe>> ELSE <<>>)

\* C29 as stated: for a row of at least six whitespace tokens the six fixed
\* fields, the tokens of the station name, the region and, when it is
\* recognized, the release status, in that order, are the tokens of the
\* row: no token is lost and none is used for two fields.
C29_EveryTokenInOneField ==
    (RowParsed /\ Len(Split(content)) >= 6) => FieldTokens(result.records) = Split(content)

StationsParsed == pc = "parsed" /\ schema = "DWDMeasurementStationsParser" /\ result.status = "ok"

\* a line of dashes, with or without blanks between them
IsSeparator(line) == \A i \in 1..Len(line) : line[i] \in {"-", " "}

IsData(line) == ~IsSeparator(line)

\* the non-blank lines of the catalog after its first non-blank line, the
\* header, without the lines of dashes
DataLinesOf(text) ==
    SelectSeq(SubSeq(SelectSeq(SplitOn(text, "\n"), IsRow), 2,
                     Len(SelectSeq(SplitOn(text, "\n"), IsRow))), IsData)

\* C30 as stated: parse returns exactly one record per non-blank data line
\* of the catalog, in input order: only the header line and the dash
\* separator line are left out and no data line is removed, whether or not
\* the second non-blank line is a dash separator.
C30_OneRecordPerDataLine ==
    StationsParsed
        => /\ Len(result.records) = Len(DataLinesOf(content))
           /\ \A i \in 1..Len(result.records) :
                 result.records[i] = parse_station_row(DataLinesOf(content)[i]).v

----------------------------------------------------------------------------
(* DataExtractor and its ClientManager: construction, with-block, close *)

\* context is the client_manager argument of the constructor, <<>> for
\* None; content is the HTTP clients of the manager that the extractor
\* holds, <<>> while there is no manager; rows is the extractor's fields;
\* calls is the methods called on the extractor so far.

MaxCalls == 6

ClientNames == {"dwd_opendata", "dwd", "pegelonline"}

\* ClientManager.__init__: one open httpx.Client per base URL
ClientManager_init == [name \in ClientNames |-> "open"]

\* ClientManager.close: client.close() for every client
ClientManager_close(clients) == [name \in ClientNames |-> "closed"]

\* variant of the ownership test that takes every manager for its own
owns_client_manager_Always(client_manager) == TRUE

\* self._owns_client_manager = client_manager is None
owns_client_manager(client_manager) == client_manager = <<>>

InitLifecycle ==
    /\ pc = "start"
    /\ schema = "DataExtractor"
    /\ context \in {<<>>, <<"client_manager">>}
    /\ content = IF context = <<>> THEN <<>> ELSE ClientManager_init
    /\ localtz = 0
    /\ raw = <<>>
    /\ rows = <<>>
    /\ result = NoResult
    /\ calls = <<>>

\* the with-blocks that have been entered and not left
Depth ==
    Cardinality({i \in 1..Len(calls) : calls[i].fn = "__enter__"})
        - Cardinality({i \in 1..Len(calls) : calls[i].fn = "__exit__"})

\* DataExtractor.__init__
DataExtractor_init ==
    /\ pc = "start"
    /\ schema = "DataExtractor"
    /\ content' = IF context # <<>> THEN content ELSE ClientManager_init
    /\ rows' = [_owns_client_manager |-> owns_client_manager(context)]
    /\ calls' = Append(calls, Call("__init__", context, <<>>))
    /\ pc' = "constructed"
    /\ UNCHANGED <<schema, context, localtz, raw, result>>

\* DataExtractor.__enter__
DataExtractor_enter ==
    /\ pc = "constructed"
    /\ Len(calls) < MaxCalls
    /\ calls' = Append(calls, Call("__enter__", <<>>, <<>>))
    /\ UNCHANGED <<pc, schema, content, context, localtz, raw, rows, result>>

\* DataExtractor.__exit__, at the end of a with-block
DataExtractor_exit ==
    /\ pc = "constructed"
    /\ Len(calls) < MaxCalls
    /\ Depth > 0
    /\ content' = IF rows._owns_client_manager THEN ClientManager_close(content) ELSE content
    /\ calls' = Append(calls, Call("__exit__", <<>>, <<>>))
    /\ UNCHANGED <<pc, schema, context, localtz, raw, rows, result>>

\* DataExtractor.close
DataExtractor_close ==
    /\ pc = "constructed"
    /\ Len(calls) < MaxCalls
    /\ content' = IF rows._owns_client_manager THEN ClientManager_close(content) ELSE content
    /\ calls' = Append(calls, Call("close", <<>>, <<>>))
    /\ UNCHANGED <<pc, schema, context, localtz, raw, rows, result>>

NextLifecycle ==
    \/ DataExtractor_init
    \/ DataExtractor_enter
    \/ DataExtractor_exit
    \/ DataExtractor_close

SpecLifecycle == InitLifecycle /\ [][NextLifecycle]_vars

Constructed == schema = "DataExtractor" /\ pc = "constructed"

\* close() has been called, or a with-block has been left
Closing == \E i \in 1..Len(calls) : calls[i].fn \in {"close", "__exit__"}

AllClients(state) == \A name \in ClientNames : content[name] = state

\* C27: close() and the exit of a with-block close the HTTP clients exactly
\* when the extractor created its ClientManager itself: after either of
\* them the clients of a manager of its own are closed, and after any
\* sequence of them the clients of an injected manager are still open.
C27_ClosesOnlyItsOwnManager ==
    Constructed
        => /\ context = <<>> => (IF Closing THEN AllClients("closed") ELSE AllClients("open"))
           /\ context # <<>> => AllClients("open")

\* C27 witness: an extractor with an injected manager has left a with-block
\* and has been closed twice, and the clients of the manager are open.
C27_Witness ==
    /\ Constructed
    /\ context # <<>>
    /\ Called = <<"__init__", "__enter__", "__exit__", "close", "close">>
    /\ AllClients("open")

----------------------------------------------------------------------------
(* A second validate call on the same rows *)

\* The caller keeps the list that it gave to validate and gives it again,
\* with the same context: the rows are the dicts as the first call left
\* them.  The outcome of the second call is kept in calls.

Revalidated(out) ==
    /\ pc = "done"
    /\ calls' = Append(calls, Call("validate", <<rows, context>>,
                                   [status |-> out.status, records |-> out.records]))
    /\ rows' = out.rows
    /\ pc' = "again"
    /\ UNCHANGED <<schema, content, raw, context, localtz, result>>

\* cls.validate(raw, ...), called once more
validate_again ==
    /\ schema \in RecordTypes
    /\ content = <<>>
    /\ Revalidated(IF schema = "PegelonlineMeasurements"
                   THEN ValidateOne(RowAlone(rows[1]))
                   ELSE ValidateList(rows, [i \in 1..Len(rows) |-> RowAlone(rows[i])]))

NextRevalidate ==
    \/ NextValidate
    \/ validate_again

SpecRevalidate == InitValidate /\ [][NextRevalidate]_vars

\* C28 as stated: two validate calls in succession on the same list of raw
\* rows with the same context have equal outcomes, for every record type:
\* both return equal records, or both fail with the same kind of error.
C28_SecondCallSameOutcome ==
    (pc = "again" /\ schema \in RecordTypes) => calls[1].out = result

====
